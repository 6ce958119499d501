----------------------------- MODULE MCSession -----------------------------
(***************************************************************************)
(* Values of the constants of Session that a .cfg file cannot write.       *)
(***************************************************************************)
EXTENDS Session

\* A client is known by its own name, or its user left the name empty.
OwnNameOrNone == [c \in Clients |-> {c, NoName}]
OwnName == [c \in Clients |-> {c}]

\* One of the clients may connect twice, and chat, and leave its name empty.
Returning == CHOOSE c \in Clients : TRUE
OneIsNameless == [c \in Clients |-> IF c = Returning THEN {c, NoName} ELSE {c}]
Once == [c \in Clients |-> 1]
OneReturns == [c \in Clients |-> IF c = Returning THEN 2 ELSE 1]
Never == [c \in Clients |-> 0]
OneChats == [c \in Clients |-> IF c = Returning THEN 1 ELSE 0]
=============================================================================
