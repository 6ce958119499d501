--------------------------- MODULE EmulatorProofs ---------------------------
(***************************************************************************)
(* What Mupen64Plus.tla promises, for every number of pauses: no fairness  *)
(* is used, so the theorems are about SafeSpec.                            *)
(*                                                                         *)
(* The invariant is read off state_: for each of its six values, where the *)
(* two threads can be. The mutex is handed from one to the other across    *)
(* four functions, and no lock scope says who may be where.                *)
(***************************************************************************)
EXTENDS Mupen64Plus, TLAPS

\* Between M64EMU_RUNNING and M64EMU_STOPPED.
InCore == {"announce", "boot", "run", "pause", "announce_pause", "stopped"}

\* Where the threads can be while state_ has the value it has.
StateInv ==
    /\ state = "Stopped" =>
        /\ emu \in {"none", "ended"}
        /\ gui \in {"idle", "start", "stop", "join", "unload"}
    /\ state = "Starting" =>
        \/ gui = "spawn" /\ emu \in {"none", "ended"}
        \/ gui = "wait" /\ emu \in {"lock", "own"} /\ ~owns
        \/ gui \in {"wait", "idle", "stop"} /\ emu \in {"notify", "attach", "execute"}
        \/ gui \in {"stop", "command", "mark"} /\ emu = "none" /\ closing
        \/ gui = "terminated" /\ emu = "terminated"
    /\ state \in {"Running", "Paused"} =>
        /\ emu \in InCore
        /\ gui \in {"wait", "idle", "stop", "command", "mark", "await"}
    /\ state = "Stopping" =>
        /\ gui = "await"
        /\ emu \in InCore \/ (emu = "none" /\ closing)
    /\ state = "Joinable" =>
        /\ emu \in {"announce_failed", "leave", "announce_joinable", "ended"}
        /\ gui \in {"wait", "idle", "stop", "await", "join", "get"}

\* The object and the ROM are there when they are needed, a run that is not
\* joined is not forgotten.
OwnerInv ==
    /\ state # "Stopped" => exists /\ rom_loaded
    /\ gui # "idle" => exists
    /\ gui \in {"idle", "stop"} /\ state = "Stopped" => ~rom_loaded
    /\ gui = "start" => rom_loaded
    /\ gui = "unload" => rom_loaded \/ closing
    /\ gui = "join" /\ ~closing => state = "Joinable"
    /\ gui \in {"join", "get"} /\ ~closing => emu = "ended" /\ ~joinable
    /\ closing => gui \in {"stop", "command", "mark", "await", "join", "get", "unload",
                           "terminated"}
    /\ joinable => emu = "ended" /\ (state = "Joinable" \/ (gui = "unload" /\ closing))

\* What this run has told so far.
ToldInv ==
    /\ core.paused => emu \in {"run", "pause", "announce_pause"}
    /\ emu \in {"none", "lock", "own", "notify", "attach", "execute", "announce_failed",
                "announce", "terminated"} <=> notified = << >>
    /\ notified # << >> => notified[1] = "RUNNING"
    /\ \A i \in 1 .. Len(notified) :
          notified[i] = "JOINABLE" <=> emu = "ended" /\ i = Len(notified)

IInv == TypeOK /\ StateInv /\ OwnerInv /\ ToldInv

-----------------------------------------------------------------------------
\* One more thing told: the run's record is one longer, what was told before
\* stays, and it is not empty.
LEMMA TellKeepsTold ==
    ASSUME NEW S, NEW s \in Seq(S), NEW x \in S
    PROVE  /\ Append(s, x) \in Seq(S)
           /\ Append(s, x) # << >>
           /\ Len(Append(s, x)) = Len(s) + 1
           /\ Append(s, x)[Len(s) + 1] = x
           /\ \A i \in 1 .. Len(s) : Append(s, x)[i] = s[i]
           /\ Len(s) \in Nat
           /\ s = << >> <=> Len(s) = 0
  OBVIOUS

\* Asking the core to stop, from either thread, tells RUNNING at most.
LEMMA AskingKeepsTypes ==
    ASSUME TypeOK, CoreAskedToStop
    PROVE  /\ core' \in [paused : BOOLEAN, stop : BOOLEAN]
           /\ notified' \in Seq({"RUNNING", "PAUSED", "JOINABLE"})
<1>1. CASE CoreIsRunning
  <2>1. core' = [paused |-> FALSE, stop |-> TRUE]
    BY <1>1 DEF CoreAskedToStop
  <2>2. core' \in [paused : BOOLEAN, stop : BOOLEAN]
    BY <2>1
  <2>3. Append(notified, "RUNNING") \in Seq({"RUNNING", "PAUSED", "JOINABLE"})
    BY DEF TypeOK
  <2>4. notified' = Append(notified, "RUNNING") \/ notified' = notified
    BY <1>1 DEF CoreAskedToStop
  <2>5. QED
    BY <2>2, <2>3, <2>4 DEF TypeOK
<1>2. CASE ~CoreIsRunning
  BY <1>2 DEF TypeOK, CoreAskedToStop
<1>3. QED
  BY <1>1, <1>2

\* Before anything is clicked the invariant holds.
THEOREM InitEstablishes == Init => IInv
<1> SUFFICES ASSUME Init PROVE IInv
  OBVIOUS
<1>1. TypeOK
  <2>1. notified \in Seq({"RUNNING", "PAUSED", "JOINABLE"})
    BY DEF Init
  <2>2. core \in [paused : BOOLEAN, stop : BOOLEAN] /\ pauses \in 0 .. MaxPauses
    BY MaxPausesAssumption DEF Init
  <2>3. QED
    BY <2>1, <2>2 DEF Init, TypeOK, EmuStates
<1>2. StateInv /\ OwnerInv
  BY DEF Init, StateInv, OwnerInv
<1>3. ToldInv
  BY DEF Init, ToldInv
<1>4. QED
  BY <1>1, <1>2, <1>3 DEF IInv

\* Every step of either thread, or of the user, keeps the types.
LEMMA StepKeepsTypes ==
    ASSUME IInv, [Next]_vars
    PROVE  TypeOK'
<1> USE DEF run, IInv, TypeOK, StateInv, OwnerInv, ToldInv, EmuStates, InCore
<1>1. ASSUME StartEmulation PROVE TypeOK'
  BY <1>1 DEF StartEmulation
<1>2. ASSUME StartEmulationFails PROVE TypeOK'
  BY <1>2 DEF StartEmulationFails
<1>3. ASSUME StopEmulation PROVE TypeOK'
  BY <1>3 DEF StopEmulation
<1>4. ASSUME Close PROVE TypeOK'
  BY <1>4 DEF Close
<1>5. ASSUME StartBegins PROVE TypeOK'
  BY <1>5 DEF StartBegins
<1>6. ASSUME SpawnThread PROVE TypeOK'
  <2>1. notified' \in Seq({"RUNNING", "PAUSED", "JOINABLE"})
    BY <1>6 DEF SpawnThread
  <2>2. pauses' \in 0 .. MaxPauses
    BY <1>6, MaxPausesAssumption DEF SpawnThread
  <2>3. QED
    BY <1>6, <2>1, <2>2 DEF SpawnThread
<1>7. ASSUME SpawnFails PROVE TypeOK'
  BY <1>7 DEF SpawnFails
<1>8. ASSUME StartReturns PROVE TypeOK'
  BY <1>8 DEF StartReturns
<1>9. ASSUME StopNothing PROVE TypeOK'
  BY <1>9 DEF StopNothing, AfterStop
<1>10. ASSUME StopLocks PROVE TypeOK'
  BY <1>10 DEF StopLocks
<1>11. ASSUME StopCommands PROVE TypeOK'
  BY <1>11, AskingKeepsTypes DEF StopCommands
<1>12. ASSUME StopMarks PROVE TypeOK'
  BY <1>12 DEF StopMarks
<1>13. ASSUME StopRetries PROVE TypeOK'
  BY <1>13, AskingKeepsTypes DEF StopRetries
<1>14. ASSUME StopReturns PROVE TypeOK'
  BY <1>14 DEF StopReturns, AfterStop
<1>15. ASSUME OnJoinable PROVE TypeOK'
  BY <1>15 DEF OnJoinable
<1>16. ASSUME JoinNothing PROVE TypeOK'
  BY <1>16 DEF JoinNothing
<1>17. ASSUME JoinLocks PROVE TypeOK'
  BY <1>17 DEF JoinLocks
<1>18. ASSUME JoinGets PROVE TypeOK'
  BY <1>18 DEF JoinGets
<1>19. ASSUME UnloadRom PROVE TypeOK'
  BY <1>19 DEF UnloadRom
<1>20. ASSUME UserPauses PROVE TypeOK'
  <2>1. pauses' \in 0 .. MaxPauses
    BY <1>20, MaxPausesAssumption DEF UserPauses
  <2>2. core' \in [paused : BOOLEAN, stop : BOOLEAN]
    BY <1>20 DEF UserPauses
  <2>3. QED
    BY <1>20, <2>1, <2>2 DEF UserPauses
<1>21. ASSUME UserUnpauses PROVE TypeOK'
  <2>1. notified' \in Seq({"RUNNING", "PAUSED", "JOINABLE"})
    BY <1>21 DEF UserUnpauses
  <2>2. core' \in [paused : BOOLEAN, stop : BOOLEAN]
    BY <1>21 DEF UserUnpauses
  <2>3. QED
    BY <1>21, <2>1, <2>2 DEF UserUnpauses
<1>22. ASSUME UserCloses PROVE TypeOK'
  BY <1>22, AskingKeepsTypes DEF UserCloses
<1>23. ASSUME EmuLocks PROVE TypeOK'
  BY <1>23 DEF EmuLocks
<1>24. ASSUME EmuOwns PROVE TypeOK'
  BY <1>24 DEF EmuOwns
<1>25. ASSUME EmuNotifies PROVE TypeOK'
  BY <1>25 DEF EmuNotifies
<1>26. ASSUME AttachPlugins PROVE TypeOK'
  BY <1>26 DEF AttachPlugins
<1>27. ASSUME AttachFails PROVE TypeOK'
  BY <1>27 DEF AttachFails
<1>28. ASSUME ExecuteFails PROVE TypeOK'
  BY <1>28 DEF ExecuteFails
<1>29. ASSUME AnnounceFailed PROVE TypeOK'
  BY <1>29 DEF AnnounceFailed
<1>30. ASSUME CoreStarts PROVE TypeOK'
  BY <1>30 DEF CoreStarts
<1>31. ASSUME AnnounceRunning PROVE TypeOK'
  BY <1>31 DEF AnnounceRunning
<1>32. ASSUME CoreBoots PROVE TypeOK'
  BY <1>32 DEF CoreBoots
<1>33. ASSUME EmuPauses PROVE TypeOK'
  BY <1>33 DEF EmuPauses
<1>34. ASSUME AnnouncePause PROVE TypeOK'
  BY <1>34 DEF AnnouncePause
<1>35. ASSUME CoreStops PROVE TypeOK'
  BY <1>35 DEF CoreStops
<1>36. ASSUME EmuStops PROVE TypeOK'
  BY <1>36 DEF EmuStops
<1>37. ASSUME EmuLeaves PROVE TypeOK'
  BY <1>37 DEF EmuLeaves
<1>38. ASSUME AnnounceJoinable PROVE TypeOK'
  BY <1>38 DEF AnnounceJoinable
<1>39. ASSUME UNCHANGED vars PROVE TypeOK'
  BY <1>39 DEF vars
<1>40. QED
  BY <1>1, <1>2, <1>3, <1>4, <1>5, <1>6, <1>7, <1>8, <1>9, <1>10, <1>11, <1>12, <1>13, <1>14, <1>15, <1>16, <1>17, <1>18, <1>19, <1>20, <1>21, <1>22, <1>23, <1>24, <1>25, <1>26, <1>27, <1>28, <1>29, <1>30, <1>31, <1>32, <1>33, <1>34, <1>35, <1>36, <1>37, <1>38, <1>39
     DEF Next, GuiBegins, GuiGoesOn, User, EmuGoesOn

\* Whichever thread moves, where both are still fits the value of state_.
LEMMA StepKeepsPlaces ==
    ASSUME IInv, [Next]_vars
    PROVE  StateInv' /\ OwnerInv'
<1> USE DEF run, IInv, TypeOK, StateInv, OwnerInv, ToldInv, EmuStates, InCore
<1>1. ASSUME StartEmulation PROVE StateInv' /\ OwnerInv'
  BY <1>1 DEF StartEmulation
<1>2. ASSUME StartEmulationFails PROVE StateInv' /\ OwnerInv'
  BY <1>2 DEF StartEmulationFails
<1>3. ASSUME StopEmulation PROVE StateInv' /\ OwnerInv'
  BY <1>3 DEF StopEmulation
<1>4. ASSUME Close PROVE StateInv' /\ OwnerInv'
  BY <1>4 DEF Close
<1>5. ASSUME StartBegins PROVE StateInv' /\ OwnerInv'
  BY <1>5 DEF StartBegins
<1>6. ASSUME SpawnThread PROVE StateInv' /\ OwnerInv'
  BY <1>6 DEF SpawnThread
<1>7. ASSUME SpawnFails PROVE StateInv' /\ OwnerInv'
  BY <1>7 DEF SpawnFails
<1>8. ASSUME StartReturns PROVE StateInv' /\ OwnerInv'
  BY <1>8 DEF StartReturns
<1>9. ASSUME StopNothing PROVE StateInv' /\ OwnerInv'
  BY <1>9 DEF StopNothing, AfterStop
<1>10. ASSUME StopLocks PROVE StateInv' /\ OwnerInv'
  BY <1>10 DEF StopLocks
<1>11. ASSUME StopCommands PROVE StateInv' /\ OwnerInv'
  BY <1>11 DEF StopCommands, CoreAskedToStop, CoreIsRunning
<1>12. ASSUME StopMarks PROVE StateInv' /\ OwnerInv'
  BY <1>12 DEF StopMarks
<1>13. ASSUME StopRetries PROVE StateInv' /\ OwnerInv'
  BY <1>13 DEF StopRetries, CoreAskedToStop, CoreIsRunning
<1>14. ASSUME StopReturns PROVE StateInv' /\ OwnerInv'
  BY <1>14 DEF StopReturns, AfterStop
<1>15. ASSUME OnJoinable PROVE StateInv' /\ OwnerInv'
  BY <1>15 DEF OnJoinable
<1>16. ASSUME JoinNothing PROVE StateInv' /\ OwnerInv'
  BY <1>16 DEF JoinNothing
<1>17. ASSUME JoinLocks PROVE StateInv' /\ OwnerInv'
  BY <1>17 DEF JoinLocks
<1>18. ASSUME JoinGets PROVE StateInv' /\ OwnerInv'
  BY <1>18 DEF JoinGets
<1>19. ASSUME UnloadRom PROVE StateInv' /\ OwnerInv'
  BY <1>19 DEF UnloadRom
<1>20. ASSUME UserPauses PROVE StateInv' /\ OwnerInv'
  BY <1>20 DEF UserPauses
<1>21. ASSUME UserUnpauses PROVE StateInv' /\ OwnerInv'
  BY <1>21 DEF UserUnpauses
<1>22. ASSUME UserCloses PROVE StateInv' /\ OwnerInv'
  BY <1>22 DEF UserCloses, CoreAskedToStop, CoreIsRunning
<1>23. ASSUME EmuLocks PROVE StateInv' /\ OwnerInv'
  BY <1>23 DEF EmuLocks
<1>24. ASSUME EmuOwns PROVE StateInv' /\ OwnerInv'
  BY <1>24 DEF EmuOwns
<1>25. ASSUME EmuNotifies PROVE StateInv' /\ OwnerInv'
  BY <1>25 DEF EmuNotifies
<1>26. ASSUME AttachPlugins PROVE StateInv' /\ OwnerInv'
  BY <1>26 DEF AttachPlugins
<1>27. ASSUME AttachFails PROVE StateInv' /\ OwnerInv'
  BY <1>27 DEF AttachFails
<1>28. ASSUME ExecuteFails PROVE StateInv' /\ OwnerInv'
  BY <1>28 DEF ExecuteFails
<1>29. ASSUME AnnounceFailed PROVE StateInv' /\ OwnerInv'
  BY <1>29 DEF AnnounceFailed
<1>30. ASSUME CoreStarts PROVE StateInv' /\ OwnerInv'
  BY <1>30 DEF CoreStarts
<1>31. ASSUME AnnounceRunning PROVE StateInv' /\ OwnerInv'
  BY <1>31 DEF AnnounceRunning
<1>32. ASSUME CoreBoots PROVE StateInv' /\ OwnerInv'
  BY <1>32 DEF CoreBoots
<1>33. ASSUME EmuPauses PROVE StateInv' /\ OwnerInv'
  BY <1>33 DEF EmuPauses
<1>34. ASSUME AnnouncePause PROVE StateInv' /\ OwnerInv'
  BY <1>34 DEF AnnouncePause
<1>35. ASSUME CoreStops PROVE StateInv' /\ OwnerInv'
  BY <1>35 DEF CoreStops
<1>36. ASSUME EmuStops PROVE StateInv' /\ OwnerInv'
  BY <1>36 DEF EmuStops
<1>37. ASSUME EmuLeaves PROVE StateInv' /\ OwnerInv'
  BY <1>37 DEF EmuLeaves
<1>38. ASSUME AnnounceJoinable PROVE StateInv' /\ OwnerInv'
  BY <1>38 DEF AnnounceJoinable
<1>39. ASSUME UNCHANGED vars PROVE StateInv' /\ OwnerInv'
  BY <1>39 DEF vars
<1>40. QED
  BY <1>1, <1>2, <1>3, <1>4, <1>5, <1>6, <1>7, <1>8, <1>9, <1>10, <1>11, <1>12, <1>13, <1>14, <1>15, <1>16, <1>17, <1>18, <1>19, <1>20, <1>21, <1>22, <1>23, <1>24, <1>25, <1>26, <1>27, <1>28, <1>29, <1>30, <1>31, <1>32, <1>33, <1>34, <1>35, <1>36, <1>37, <1>38, <1>39
     DEF Next, GuiBegins, GuiGoesOn, User, EmuGoesOn

\* Whoever calls the state callback, the record of the run stays in order.
LEMMA StepKeepsTold ==
    ASSUME IInv, [Next]_vars
    PROVE  ToldInv'
<1> USE DEF run, IInv, TypeOK, StateInv, OwnerInv, ToldInv, EmuStates, InCore
<1>1. ASSUME StartEmulation PROVE ToldInv'
  BY <1>1 DEF StartEmulation
<1>2. ASSUME StartEmulationFails PROVE ToldInv'
  BY <1>2 DEF StartEmulationFails
<1>3. ASSUME StopEmulation PROVE ToldInv'
  BY <1>3 DEF StopEmulation
<1>4. ASSUME Close PROVE ToldInv'
  BY <1>4 DEF Close
<1>5. ASSUME StartBegins PROVE ToldInv'
  BY <1>5 DEF StartBegins
<1>6. ASSUME SpawnThread PROVE ToldInv'
  BY <1>6 DEF SpawnThread
<1>7. ASSUME SpawnFails PROVE ToldInv'
  BY <1>7 DEF SpawnFails
<1>8. ASSUME StartReturns PROVE ToldInv'
  BY <1>8 DEF StartReturns
<1>9. ASSUME StopNothing PROVE ToldInv'
  BY <1>9 DEF StopNothing, AfterStop
<1>10. ASSUME StopLocks PROVE ToldInv'
  BY <1>10 DEF StopLocks
<1>11. ASSUME StopCommands PROVE ToldInv'
  BY <1>11, TellKeepsTold DEF StopCommands, CoreAskedToStop, CoreIsRunning
<1>12. ASSUME StopMarks PROVE ToldInv'
  BY <1>12 DEF StopMarks
<1>13. ASSUME StopRetries PROVE ToldInv'
  BY <1>13, TellKeepsTold DEF StopRetries, CoreAskedToStop, CoreIsRunning
<1>14. ASSUME StopReturns PROVE ToldInv'
  BY <1>14 DEF StopReturns, AfterStop
<1>15. ASSUME OnJoinable PROVE ToldInv'
  BY <1>15 DEF OnJoinable
<1>16. ASSUME JoinNothing PROVE ToldInv'
  BY <1>16 DEF JoinNothing
<1>17. ASSUME JoinLocks PROVE ToldInv'
  BY <1>17 DEF JoinLocks
<1>18. ASSUME JoinGets PROVE ToldInv'
  BY <1>18 DEF JoinGets
<1>19. ASSUME UnloadRom PROVE ToldInv'
  BY <1>19 DEF UnloadRom
<1>20. ASSUME UserPauses PROVE ToldInv'
  BY <1>20 DEF UserPauses
<1>21. ASSUME UserUnpauses PROVE ToldInv'
  BY <1>21, TellKeepsTold DEF UserUnpauses
<1>22. ASSUME UserCloses PROVE ToldInv'
  BY <1>22, TellKeepsTold DEF UserCloses, CoreAskedToStop, CoreIsRunning
<1>23. ASSUME EmuLocks PROVE ToldInv'
  BY <1>23 DEF EmuLocks
<1>24. ASSUME EmuOwns PROVE ToldInv'
  BY <1>24 DEF EmuOwns
<1>25. ASSUME EmuNotifies PROVE ToldInv'
  BY <1>25 DEF EmuNotifies
<1>26. ASSUME AttachPlugins PROVE ToldInv'
  BY <1>26 DEF AttachPlugins
<1>27. ASSUME AttachFails PROVE ToldInv'
  BY <1>27 DEF AttachFails
<1>28. ASSUME ExecuteFails PROVE ToldInv'
  BY <1>28 DEF ExecuteFails
<1>29. ASSUME AnnounceFailed PROVE ToldInv'
  <2>1. notified' = << "RUNNING" >>
    BY <1>29 DEF AnnounceFailed
  <2>2. notified' # << >> /\ Len(notified') = 1 /\ notified'[1] = "RUNNING"
    BY <2>1
  <2>3. QED
    BY <1>29, <2>2 DEF AnnounceFailed
<1>30. ASSUME CoreStarts PROVE ToldInv'
  BY <1>30 DEF CoreStarts
<1>31. ASSUME AnnounceRunning PROVE ToldInv'
  <2>1. notified' = << "RUNNING" >>
    BY <1>31 DEF AnnounceRunning
  <2>2. notified' # << >> /\ Len(notified') = 1 /\ notified'[1] = "RUNNING"
    BY <2>1
  <2>3. QED
    BY <1>31, <2>2 DEF AnnounceRunning
<1>32. ASSUME CoreBoots PROVE ToldInv'
  BY <1>32 DEF CoreBoots
<1>33. ASSUME EmuPauses PROVE ToldInv'
  BY <1>33 DEF EmuPauses
<1>34. ASSUME AnnouncePause PROVE ToldInv'
  BY <1>34, TellKeepsTold DEF AnnouncePause
<1>35. ASSUME CoreStops PROVE ToldInv'
  BY <1>35 DEF CoreStops
<1>36. ASSUME EmuStops PROVE ToldInv'
  BY <1>36 DEF EmuStops
<1>37. ASSUME EmuLeaves PROVE ToldInv'
  BY <1>37 DEF EmuLeaves
<1>38. ASSUME AnnounceJoinable PROVE ToldInv'
  BY <1>38, TellKeepsTold DEF AnnounceJoinable
<1>39. ASSUME UNCHANGED vars PROVE ToldInv'
  BY <1>39 DEF vars
<1>40. QED
  BY <1>1, <1>2, <1>3, <1>4, <1>5, <1>6, <1>7, <1>8, <1>9, <1>10, <1>11, <1>12, <1>13, <1>14, <1>15, <1>16, <1>17, <1>18, <1>19, <1>20, <1>21, <1>22, <1>23, <1>24, <1>25, <1>26, <1>27, <1>28, <1>29, <1>30, <1>31, <1>32, <1>33, <1>34, <1>35, <1>36, <1>37, <1>38, <1>39
     DEF Next, GuiBegins, GuiGoesOn, User, EmuGoesOn

-----------------------------------------------------------------------------
\* Every reachable state has the threads, the object and the record where the
\* value of state_ says they are.
THEOREM EmulatorInvariant == SafeSpec => []IInv
<1>1. IInv /\ [Next]_vars => IInv'
  BY StepKeepsTypes, StepKeepsPlaces, StepKeepsTold DEF IInv
<1>2. QED
  BY InitEstablishes, <1>1, PTL DEF SafeSpec

\* The mutex is held exactly in the code between a lock and its unlock, though
\* four functions on two threads pass it on.
THEOREM EmulatorTyping == SafeSpec => []TypeOK
<1>1. IInv => TypeOK
  BY DEF IInv
<1>2. QED
  BY EmulatorInvariant, <1>1, PTL

\* The assertions of load_rom(), stop(), join(), unload_rom() and the emulation
\* thread hold whatever the user clicks, that of stop() if there was a thread.
THEOREM EmulatorAssertions == SafeSpec => []AssertionsHold
<1>1. IInv => AssertionsHold
  BY DEF IInv, TypeOK, StateInv, OwnerInv, AssertionsHold, InCore
<1>2. QED
  BY EmulatorInvariant, <1>1, PTL

\* state() never finds Starting or Stopping, for which it has no answer.
THEOREM EmulatorAnswers == SafeSpec => []StateHasAnswer
<1>1. IInv => StateHasAnswer
  BY DEF IInv, TypeOK, StateInv, OwnerInv, StateHasAnswer, InCore
<1>2. QED
  BY EmulatorInvariant, <1>1, PTL

\* ~Mupen64Plus and unload_rom() wait for the emulation thread first.
THEOREM EmulatorOutlivesThread == SafeSpec => []NothingFreedUnderTheThread
<1>1. IInv => NothingFreedUnderTheThread
  BY DEF IInv, TypeOK, StateInv, OwnerInv, NothingFreedUnderTheThread, EmuStates
<1>2. QED
  BY EmulatorInvariant, <1>1, PTL

\* The state callback is told RUNNING first and JOINABLE once and last, even
\* of a run that failed, and whichever threads pause and stop it.
THEOREM EmulatorAnnounces == SafeSpec => []RunsAnnounced
<1>1. IInv => RunsAnnounced
  BY DEF IInv, TypeOK, ToldInv, RunsAnnounced
<1>2. QED
  BY EmulatorInvariant, <1>1, PTL

\* A stop() or a pause on its way never hides from join() that the core is
\* through.
THEOREM EmulatorStaysJoinable == SafeSpec => JoinableIsFinal
<1>1. IInv /\ [Next]_vars => [state = "Joinable" => state' \in {"Joinable", "Stopped"}]_vars
  <2>1. SUFFICES ASSUME IInv, Next, state = "Joinable", state' # state
                 PROVE  state' = "Stopped"
    BY DEF vars
  <2>2. emu \in {"announce_failed", "leave", "announce_joinable", "ended"}
    BY <2>1 DEF IInv, StateInv
  <2>3. gui \in {"wait", "idle", "stop", "await", "join", "get"}
    BY <2>1 DEF IInv, StateInv
  <2>4. CASE GuiBegins \/ GuiGoesOn
    BY <2>1, <2>3, <2>4
       DEF GuiBegins, GuiGoesOn, StartEmulation, StartEmulationFails, StopEmulation, Close,
           StartBegins, SpawnThread, SpawnFails, StartReturns, StopNothing, StopLocks,
           StopCommands, StopMarks, StopRetries, StopReturns, OnJoinable, JoinNothing,
           JoinLocks, JoinGets, UnloadRom
  <2>5. CASE User \/ EmuGoesOn
    BY <2>1, <2>2, <2>5
       DEF User, EmuGoesOn, UserPauses, UserUnpauses, UserCloses, EmuLocks, EmuOwns,
           EmuNotifies, AttachPlugins, AttachFails, ExecuteFails, AnnounceFailed,
           CoreStarts, AnnounceRunning, CoreBoots, EmuPauses, AnnouncePause, CoreStops,
           EmuStops, EmuLeaves, AnnounceJoinable
  <2>6. QED
    BY <2>1, <2>4, <2>5 DEF Next
<1>2. QED
  BY EmulatorInvariant, <1>1, PTL DEF SafeSpec, JoinableIsFinal
=============================================================================
