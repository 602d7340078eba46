----------------------- MODULE SubmissionQueueProofs -----------------------
(***************************************************************************)
(* Proofs about SubmissionQueue for any number of requests, presses,       *)
(* executions, tries and sends.                                            *)
(***************************************************************************)
EXTENDS SubmissionQueue, TLAPS

\* Whoever acts as the holder of the floor is the holder of the lock.
FloorInv ==
    /\ \A w \in Workers : pc[w] \in Holding => floor = w
    /\ walk = "walking" => floor = Walk

\* What the program counter of an execution says about its claim.
JobInv ==
    \A w \in Workers :
        /\ pc[w] \in Owning => job[w] \in Requests /\ submit_state[job[w]] = "filing"
        /\ pc[w] \in Settling => job[w] \in Requests
        /\ pc[w] \notin Owning \cup Settling => job[w] = None
        /\ pc[w] = "claimed" => tries[job[w]] >= 1
        /\ pc[w] = "uncounting" => submit_state[job[w]] = "approved" /\ tries[job[w]] >= 1

IInv == TypeOK /\ FloorInv /\ JobInv

\* The invariant holds at first.
LEMMA InitIInv == Init => IInv
  <1> SUFFICES ASSUME Init PROVE IInv
    OBVIOUS
  <1> USE BoundsAssumption, NamesAssumption DEF Init, WorkerPcs, Holding, Owning, Driving, Settling
  <1>1. TypeOK
    <2> USE DEF States, Numbers, PressPcs, WalkPcs
    <2>1. /\ submit_state \in [Requests -> States]
          /\ case \in [Requests -> Numbers]
          /\ press \in [Presses -> PressPcs]
          /\ pc \in [Workers -> WorkerPcs]
          /\ read \in [Workers -> Numbers]
          /\ walk \in WalkPcs
      OBVIOUS
    <2>2. /\ tries \in [Requests -> 0..MaxTries]
          /\ left \in [Workers -> 0..MaxPerRun]
      OBVIOUS
    <2>3. /\ live \in [Workers -> BOOLEAN]
          /\ rechecked \in [Workers -> BOOLEAN]
          /\ walk_kicked \in BOOLEAN
      BY Zenon
    <2>4. QED
      BY <2>1, <2>2, <2>3 DEF TypeOK
  <1>2. FloorInv
    BY DEF FloorInv
  <1>3. JobInv
    BY DEF JobInv
  <1>4. QED
    BY <1>1, <1>2, <1>3 DEF IInv

\* The steps of the web service.
LEMMA PressInd ==
  ASSUME IInv, NEW p \in Presses, PressStep(p) \/ PressDies(p)
  PROVE  IInv'
  <1> USE BoundsAssumption, NamesAssumption DEF IInv, rows, web, locals, walker, ghosts
  <1>1. ASSUME NEW r \in Requests, PressRead(p, r) PROVE IInv'
    BY <1>1 DEF PressRead, PressPcs, TypeOK, FloorInv, JobInv
  <1>2. CASE PressQueue(p)
    <2> USE <1>2 DEF PressQueue, SetState
    <2>1. TypeOK'
      BY DEF TypeOK, PressPcs, States
    <2>2. FloorInv'
      BY DEF FloorInv
    <2>3. JobInv'
      BY DEF JobInv, TypeOK, Owning, Driving, Settling
    <2>4. QED
      BY <2>1, <2>2, <2>3
  <1>3. CASE PressApprove(p)
    <2> USE <1>3 DEF PressApprove, SetState, Approve
    <2>1. TypeOK'
      BY DEF TypeOK, PressPcs, States
    <2>2. FloorInv'
      BY DEF FloorInv
    <2>3. JobInv'
      BY DEF JobInv, TypeOK, Owning, Driving, Settling
    <2>4. QED
      BY <2>1, <2>2, <2>3
  <1>4. CASE PressDies(p)
    BY <1>4 DEF PressDies, PressPcs, TypeOK, FloorInv, JobInv
  <1>5. QED
    BY <1>1, <1>2, <1>3, <1>4 DEF PressStep

\* An execution arrives, waits out a walk and takes the floor.
LEMMA FloorInd ==
  ASSUME IInv, NEW w \in Workers,
         \/ Arrive(w) \/ ProbeWalk(w) \/ ProbeDone(w) \/ LastTry(w) \/ WakeUp(w)
         \/ GiveUpWaiting(w) \/ LeaveTheFloor(w) \/ WorkerDies(w)
  PROVE  IInv'
  <1> USE BoundsAssumption, NamesAssumption DEF IInv, rows, web, locals, walker, ghosts
  <1>1. CASE Arrive(w)
    <2> USE <1>1 DEF Arrive, TakeTheFloor, FloorTaken, Goto
    <2>1. TypeOK'
      <3>1. CASE floor = None
        <4>1. rechecked' \in [Workers -> BOOLEAN]
          BY <3>1, Zenon DEF TypeOK
        <4>2. left' \in [Workers -> 0..MaxPerRun]
          BY <3>1 DEF TypeOK
        <4>3. pc' \in [Workers -> WorkerPcs]
          BY <3>1 DEF TypeOK, WorkerPcs, Holding
        <4>4. QED
          BY <3>1, <4>1, <4>2, <4>3 DEF TypeOK, Numbers
      <3>2. CASE floor # None
        BY <3>2 DEF JobInv, TypeOK, WorkerPcs, Holding, Owning, Driving, Settling, States, Numbers
      <3>3. QED
        BY <3>1, <3>2
    <2>2. FloorInv'
      BY DEF TypeOK, FloorInv, Holding, Owning, Driving, Settling
    <2>3. JobInv'
      BY DEF TypeOK, FloorInv, JobInv, Holding, Owning, Driving, Settling
    <2>4. QED
      BY <2>1, <2>2, <2>3
  <1>2. CASE ProbeWalk(w)
    <2> USE <1>2 DEF ProbeWalk, Goto
    <2>1. TypeOK'
      BY DEF JobInv, TypeOK, WorkerPcs, Holding, Owning, Driving, Settling, States, Numbers
    <2>2. FloorInv'
      BY DEF TypeOK, FloorInv, Holding, Owning, Driving, Settling
    <2>3. JobInv'
      BY DEF TypeOK, FloorInv, JobInv, Holding, Owning, Driving, Settling
    <2>4. QED
      BY <2>1, <2>2, <2>3
  <1>3. CASE ProbeDone(w)
    <2> USE <1>3 DEF ProbeDone, Goto
    <2>1. TypeOK'
      BY DEF JobInv, TypeOK, WorkerPcs, Holding, Owning, Driving, Settling, States, Numbers
    <2>2. FloorInv'
      BY DEF TypeOK, FloorInv, Holding, Owning, Driving, Settling
    <2>3. JobInv'
      BY DEF TypeOK, FloorInv, JobInv, Holding, Owning, Driving, Settling
    <2>4. QED
      BY <2>1, <2>2, <2>3
  <1>4. CASE LastTry(w)
    <2> USE <1>4 DEF LastTry, TakeTheFloor, Exit, Goto
    <2>1. TypeOK'
      <3>1. CASE floor = None
        <4>1. rechecked' \in [Workers -> BOOLEAN]
          BY <3>1, Zenon DEF TypeOK
        <4>2. left' \in [Workers -> 0..MaxPerRun]
          BY <3>1 DEF TypeOK
        <4>3. pc' \in [Workers -> WorkerPcs]
          BY <3>1 DEF TypeOK, WorkerPcs, Holding
        <4>4. QED
          BY <3>1, <4>1, <4>2, <4>3 DEF TypeOK, Numbers
      <3>2. CASE floor # None
        <4>1. rechecked' \in [Workers -> BOOLEAN] /\ live' \in [Workers -> BOOLEAN]
          BY <3>2, Zenon DEF TypeOK
        <4>2. left' \in [Workers -> 0..MaxPerRun] /\ read' \in [Workers -> Numbers]
          BY <3>2 DEF TypeOK, Numbers
        <4>3. /\ pc' \in [Workers -> WorkerPcs]
              /\ job' \in [Workers -> Requests \cup {None}]
          BY <3>2 DEF TypeOK, WorkerPcs
        <4>4. QED
          BY <3>2, <4>1, <4>2, <4>3 DEF TypeOK
      <3>3. QED
        BY <3>1, <3>2
    <2>2. FloorInv'
      BY DEF TypeOK, FloorInv, Holding, Owning, Driving, Settling
    <2>3. JobInv'
      BY DEF TypeOK, FloorInv, JobInv, Holding, Owning, Driving, Settling
    <2>4. QED
      BY <2>1, <2>2, <2>3
  <1>5. CASE WakeUp(w)
    <2> USE <1>5 DEF WakeUp, TakeTheFloor, FloorTaken, Goto
    <2>1. TypeOK'
      <3>1. CASE floor = None
        <4>1. rechecked' \in [Workers -> BOOLEAN]
          BY <3>1, Zenon DEF TypeOK
        <4>2. left' \in [Workers -> 0..MaxPerRun]
          BY <3>1 DEF TypeOK
        <4>3. pc' \in [Workers -> WorkerPcs]
          BY <3>1 DEF TypeOK, WorkerPcs, Holding
        <4>4. QED
          BY <3>1, <4>1, <4>2, <4>3 DEF TypeOK, Numbers
      <3>2. CASE floor # None
        BY <3>2 DEF JobInv, TypeOK, WorkerPcs, Holding, Owning, Driving, Settling, States, Numbers
      <3>3. QED
        BY <3>1, <3>2
    <2>2. FloorInv'
      BY DEF TypeOK, FloorInv, Holding, Owning, Driving, Settling
    <2>3. JobInv'
      BY DEF TypeOK, FloorInv, JobInv, Holding, Owning, Driving, Settling
    <2>4. QED
      BY <2>1, <2>2, <2>3
  <1>6. CASE GiveUpWaiting(w)
    <2> USE <1>6 DEF GiveUpWaiting, Exit
    <2>1. TypeOK'
      BY DEF JobInv, TypeOK, WorkerPcs, Holding, Owning, Driving, Settling, States, Numbers
    <2>2. FloorInv'
      BY DEF TypeOK, FloorInv, Holding, Owning, Driving, Settling
    <2>3. JobInv'
      BY DEF TypeOK, FloorInv, JobInv, Holding, Owning, Driving, Settling
    <2>4. QED
      BY <2>1, <2>2, <2>3
  <1>7. CASE LeaveTheFloor(w)
    <2> USE <1>7 DEF LeaveTheFloor, Exit
    <2>1. TypeOK'
      BY DEF JobInv, TypeOK, WorkerPcs, Holding, Owning, Driving, Settling, States, Numbers
    <2>2. FloorInv'
      BY DEF TypeOK, FloorInv, Holding, Owning, Driving, Settling
    <2>3. JobInv'
      BY DEF TypeOK, FloorInv, JobInv, Holding, Owning, Driving, Settling
    <2>4. QED
      BY <2>1, <2>2, <2>3
  <1>8. CASE WorkerDies(w)
    <2> USE <1>8 DEF WorkerDies, Exit
    <2>1. TypeOK'
      BY DEF JobInv, TypeOK, WorkerPcs, Holding, Owning, Driving, Settling, States, Numbers
    <2>2. FloorInv'
      BY DEF TypeOK, FloorInv, Holding, Owning, Driving, Settling
    <2>3. JobInv'
      BY DEF TypeOK, FloorInv, JobInv, Holding, Owning, Driving, Settling
    <2>4. QED
      BY <2>1, <2>2, <2>3
  <1>9. QED
    BY <1>1, <1>2, <1>3, <1>4, <1>5, <1>6, <1>7, <1>8

\* A turn of the drain loop: a claim, or the second look.
LEMMA ClaimInd ==
  ASSUME IInv, NEW w \in Workers,
         \/ ClaimNext(w) \/ ClaimNothing(w)
  PROVE  IInv'
  <1> USE BoundsAssumption, NamesAssumption DEF IInv, rows, web, locals, walker, ghosts
  <1>1. CASE ClaimNext(w)
    <2> USE <1>1 DEF ClaimNext, Goto, SetState, Oldest, Claimable
    <2>1. TypeOK'
      BY DEF JobInv, TypeOK, WorkerPcs, Holding, Owning, Driving, Settling, States, Numbers
    <2>2. FloorInv'
      BY DEF TypeOK, FloorInv, Holding, Owning, Driving, Settling
    <2>3. JobInv'
      BY DEF TypeOK, FloorInv, JobInv, Holding, Owning, Driving, Settling
    <2>4. QED
      BY <2>1, <2>2, <2>3
  <1>2. CASE ClaimNothing(w)
    <2> USE <1>2 DEF ClaimNothing, Goto
    <2>1. TypeOK'
      <3>1. CASE rechecked[w]
        <4>1. rechecked' \in [Workers -> BOOLEAN]
          BY <3>1, Zenon DEF TypeOK
        <4>2. left' \in [Workers -> 0..MaxPerRun]
          BY <3>1 DEF TypeOK
        <4>3. pc' \in [Workers -> WorkerPcs]
          BY <3>1 DEF TypeOK, WorkerPcs, Holding
        <4>4. QED
          BY <3>1, <4>1, <4>2, <4>3 DEF TypeOK, Numbers
      <3>2. CASE ~rechecked[w]
        <4>1. rechecked' \in [Workers -> BOOLEAN]
          BY <3>2, Zenon DEF TypeOK
        <4>2. left' \in [Workers -> 0..MaxPerRun]
          BY <3>2 DEF TypeOK
        <4>3. pc' \in [Workers -> WorkerPcs]
          BY <3>2 DEF TypeOK, WorkerPcs, Holding
        <4>4. QED
          BY <3>2, <4>1, <4>2, <4>3 DEF TypeOK, Numbers
      <3>3. QED
        BY <3>1, <3>2
    <2>2. FloorInv'
      BY DEF TypeOK, FloorInv, Holding, Owning, Driving, Settling
    <2>3. JobInv'
      BY DEF TypeOK, FloorInv, JobInv, Holding, Owning, Driving, Settling
    <2>4. QED
      BY <2>1, <2>2, <2>3
  <1>3. QED
    BY <1>1, <1>2

\* The browser run.
LEMMA BrowserInd ==
  ASSUME IInv, NEW w \in Workers,
         \/ StopShort(w) \/ PressSubmit(w) \/ CloseOut(w) \/ LateFault(w)
  PROVE  IInv'
  <1> USE BoundsAssumption, NamesAssumption DEF IInv, rows, web, locals, walker, ghosts
  <1>1. CASE StopShort(w)
    <2> USE <1>1 DEF StopShort, Goto
    <2>1. TypeOK'
      BY DEF JobInv, TypeOK, WorkerPcs, Holding, Owning, Driving, Settling, States, Numbers
    <2>2. FloorInv'
      BY DEF TypeOK, FloorInv, Holding, Owning, Driving, Settling
    <2>3. JobInv'
      BY DEF TypeOK, FloorInv, JobInv, Holding, Owning, Driving, Settling
    <2>4. QED
      BY <2>1, <2>2, <2>3
  <1>2. CASE PressSubmit(w)
    <2> USE <1>2 DEF PressSubmit, Goto
    <2>1. TypeOK'
      BY DEF JobInv, TypeOK, WorkerPcs, Holding, Owning, Driving, Settling, States, Numbers
    <2>2. FloorInv'
      BY DEF TypeOK, FloorInv, Holding, Owning, Driving, Settling
    <2>3. JobInv'
      BY DEF TypeOK, FloorInv, JobInv, Holding, Owning, Driving, Settling
    <2>4. QED
      BY <2>1, <2>2, <2>3
  <1>3. CASE CloseOut(w)
    <2> USE <1>3 DEF CloseOut, Goto
    <2>1. TypeOK'
      BY DEF JobInv, TypeOK, WorkerPcs, Holding, Owning, Driving, Settling, States, Numbers
    <2>2. FloorInv'
      BY DEF TypeOK, FloorInv, Holding, Owning, Driving, Settling
    <2>3. JobInv'
      BY DEF TypeOK, FloorInv, JobInv, Holding, Owning, Driving, Settling
    <2>4. QED
      BY <2>1, <2>2, <2>3
  <1>4. CASE LateFault(w)
    <2> USE <1>4 DEF LateFault, Goto
    <2>1. TypeOK'
      BY DEF JobInv, TypeOK, WorkerPcs, Holding, Owning, Driving, Settling, States, Numbers
    <2>2. FloorInv'
      BY DEF TypeOK, FloorInv, Holding, Owning, Driving, Settling
    <2>3. JobInv'
      BY DEF TypeOK, FloorInv, JobInv, Holding, Owning, Driving, Settling
    <2>4. QED
      BY <2>1, <2>2, <2>3
  <1>5. QED
    BY <1>1, <1>2, <1>3, <1>4

\* The commits that settle a claim.
LEMMA SettleInd ==
  ASSUME IInv, NEW w \in Workers,
         \/ FinishFiled(w) \/ LinkRequest(w) \/ Park(w) \/ ParkTries(w)
         \/ Rehearse(w) \/ UncountTry(w) \/ Release(w)
  PROVE  IInv'
  <1> USE BoundsAssumption, NamesAssumption DEF IInv, rows, web, locals, walker, ghosts
  <1>1. CASE FinishFiled(w)
    <2> USE <1>1 DEF FinishFiled, Goto, SetState
    <2>1. TypeOK'
      BY DEF JobInv, TypeOK, WorkerPcs, Holding, Owning, Driving, Settling, States, Numbers
    <2>2. FloorInv'
      BY DEF TypeOK, FloorInv, Holding, Owning, Driving, Settling
    <2>3. JobInv'
      BY DEF TypeOK, FloorInv, JobInv, Holding, Owning, Driving, Settling
    <2>4. QED
      BY <2>1, <2>2, <2>3
  <1>2. CASE LinkRequest(w)
    <2> USE <1>2 DEF LinkRequest, NextTurn, Goto
    <2>1. TypeOK'
      BY DEF JobInv, TypeOK, WorkerPcs, Holding, Owning, Driving, Settling, States, Numbers
    <2>2. FloorInv'
      BY DEF TypeOK, FloorInv, Holding, Owning, Driving, Settling
    <2>3. JobInv'
      BY DEF TypeOK, FloorInv, JobInv, Holding, Owning, Driving, Settling
    <2>4. QED
      BY <2>1, <2>2, <2>3
  <1>3. CASE Park(w)
    <2> USE <1>3 DEF Park, Goto, SetState
    <2>1. TypeOK'
      BY DEF JobInv, TypeOK, WorkerPcs, Holding, Owning, Driving, Settling, States, Numbers
    <2>2. FloorInv'
      BY DEF TypeOK, FloorInv, Holding, Owning, Driving, Settling
    <2>3. JobInv'
      BY DEF TypeOK, FloorInv, JobInv, Holding, Owning, Driving, Settling
    <2>4. QED
      BY <2>1, <2>2, <2>3
  <1>4. CASE ParkTries(w)
    <2> USE <1>4 DEF ParkTries, NextTurn, Goto
    <2>1. TypeOK'
      BY DEF JobInv, TypeOK, WorkerPcs, Holding, Owning, Driving, Settling, States, Numbers
    <2>2. FloorInv'
      BY DEF TypeOK, FloorInv, Holding, Owning, Driving, Settling
    <2>3. JobInv'
      BY DEF TypeOK, FloorInv, JobInv, Holding, Owning, Driving, Settling
    <2>4. QED
      BY <2>1, <2>2, <2>3
  <1>5. CASE Rehearse(w)
    <2> USE <1>5 DEF Rehearse, Goto, SetState
    <2>1. TypeOK'
      BY DEF JobInv, TypeOK, WorkerPcs, Holding, Owning, Driving, Settling, States, Numbers
    <2>2. FloorInv'
      BY DEF TypeOK, FloorInv, Holding, Owning, Driving, Settling
    <2>3. JobInv'
      BY DEF TypeOK, FloorInv, JobInv, Holding, Owning, Driving, Settling
    <2>4. QED
      BY <2>1, <2>2, <2>3
  <1>6. CASE UncountTry(w)
    <2> USE <1>6 DEF UncountTry, NextTurn, Goto
    <2>1. TypeOK'
      BY DEF JobInv, TypeOK, WorkerPcs, Holding, Owning, Driving, Settling, States, Numbers
    <2>2. FloorInv'
      BY DEF TypeOK, FloorInv, Holding, Owning, Driving, Settling
    <2>3. JobInv'
      BY DEF TypeOK, FloorInv, JobInv, Holding, Owning, Driving, Settling
    <2>4. QED
      BY <2>1, <2>2, <2>3
  <1>7. CASE Release(w)
    <2> USE <1>7 DEF Release, NextTurn, Goto, SetState
    <2>1. TypeOK'
      BY DEF JobInv, TypeOK, WorkerPcs, Holding, Owning, Driving, Settling, States, Numbers
    <2>2. FloorInv'
      BY DEF TypeOK, FloorInv, Holding, Owning, Driving, Settling
    <2>3. JobInv'
      BY DEF TypeOK, FloorInv, JobInv, Holding, Owning, Driving, Settling
    <2>4. QED
      BY <2>1, <2>2, <2>3
  <1>8. QED
    BY <1>1, <1>2, <1>3, <1>4, <1>5, <1>6, <1>7

\* What starts executions: a retry, the kick, the schedule.
LEMMA StartInd ==
  ASSUME IInv, (\E r \in Requests : Retry(r)) \/ Kick \/ ScheduleTick
  PROVE  IInv'
  <1> USE BoundsAssumption, NamesAssumption, SwitchesAssumption
      DEF IInv, rows, web, locals, walker, ghosts
  <1>1. ASSUME NEW r \in Requests, Retry(r) PROVE IInv'
    <2> USE <1>1 DEF Retry, Approve, SetState
    <2>1. TypeOK'
      BY DEF TypeOK, States
    <2>2. FloorInv'
      BY DEF FloorInv
    <2>3. JobInv'
      BY DEF TypeOK, FloorInv, JobInv, Holding, Owning, Driving, Settling
    <2>4. QED
      BY <2>1, <2>2, <2>3
  <1>2. ASSUME StartJob, UNCHANGED <<rows, floor, walk_lock, web, walker, ghosts>>,
               kicks' \in Nat
        PROVE  IInv'
    <2>1. PICK w \in Workers, l \in Modes :
             /\ pc[w] = "off"
             /\ pc' = [pc EXCEPT ![w] = "arrived"]
             /\ live' = [live EXCEPT ![w] = l]
             /\ UNCHANGED <<job, left, rechecked, read>>
      BY <1>2 DEF StartJob
    <2>2. live' \in [Workers -> BOOLEAN]
      BY <2>1, Zenon DEF TypeOK
    <2>3. TypeOK'
      BY <1>2, <2>1, <2>2 DEF TypeOK, WorkerPcs
    <2>4. FloorInv'
      BY <1>2, <2>1 DEF TypeOK, FloorInv, Holding, Owning, Driving, Settling
    <2>5. JobInv'
      BY <1>2, <2>1 DEF TypeOK, JobInv, Owning, Driving, Settling
    <2>6. QED
      BY <2>3, <2>4, <2>5
  <1>3. CASE Kick
    <2>1. kicks' \in Nat /\ UNCHANGED <<rows, floor, walk_lock, web, walker, ghosts>>
      BY <1>3 DEF Kick, TypeOK
    <2>2. CASE UNCHANGED <<pc, locals>>
      BY <2>1, <2>2 DEF TypeOK, FloorInv, JobInv
    <2>3. QED
      BY <1>2, <1>3, <2>1, <2>2 DEF Kick
  <1>4. CASE ScheduleTick
    BY <1>2, <1>4 DEF ScheduleTick, TypeOK
  <1>5. QED
    BY <1>1, <1>3, <1>4

\* The walk.
LEMMA WalkInd ==
  ASSUME IInv, WalkStarts \/ WalkStep \/ WalkDies
  PROVE  IInv'
  <1> USE BoundsAssumption, NamesAssumption DEF IInv, rows, web, locals, walker, ghosts
  <1>1. CASE WalkKicks
    <2>1. CASE UNCHANGED <<pc, locals>>
      BY <1>1, <2>1 DEF WalkKicks, TypeOK, FloorInv, JobInv
    <2>2. CASE StartJob
      <3>1. PICK w \in Workers, l \in Modes :
               /\ pc[w] = "off"
               /\ pc' = [pc EXCEPT ![w] = "arrived"]
               /\ live' = [live EXCEPT ![w] = l]
               /\ UNCHANGED <<job, left, rechecked, read>>
        BY <2>2 DEF StartJob
      <3>2. live' \in [Workers -> BOOLEAN]
        BY <3>1, SwitchesAssumption, Zenon DEF TypeOK
      <3>3. TypeOK'
        BY <1>1, <3>1, <3>2 DEF WalkKicks, TypeOK, WorkerPcs
      <3>4. FloorInv'
        BY <1>1, <3>1 DEF WalkKicks, TypeOK, FloorInv, Holding, Owning, Driving, Settling
      <3>5. JobInv'
        BY <1>1, <3>1 DEF WalkKicks, TypeOK, JobInv, Owning, Driving, Settling
      <3>6. QED
        BY <3>3, <3>4, <3>5
    <2>3. QED
      BY <1>1, <2>1, <2>2 DEF WalkKicks
  <1>2. ASSUME WalkStarts \/ WalkLooks \/ WalkTakesFloor \/ WalkLeavesFloor \/ WalkEnds \/ WalkDies
        PROVE  IInv'
    <2> USE <1>2 DEF WalkStarts, WalkLooks, WalkTakesFloor, WalkLeavesFloor, WalkEnds, WalkDies
    <2>1. TypeOK'
      BY DEF TypeOK, WalkPcs
    <2>2. FloorInv'
      BY DEF TypeOK, FloorInv
    <2>3. JobInv'
      BY DEF JobInv
    <2>4. QED
      BY <2>1, <2>2, <2>3
  <1>3. QED
    BY <1>1, <1>2 DEF WalkStep

\* Every step keeps the invariant.
LEMMA StepIInv == IInv /\ [Next]_vars => IInv'
  <1> SUFFICES ASSUME IInv, [Next]_vars PROVE IInv'
    OBVIOUS
  <1>1. CASE UNCHANGED vars
    BY <1>1 DEF IInv, TypeOK, FloorInv, JobInv, vars, rows, web, locals, walker, ghosts
  <1>2. ASSUME NEW w \in Workers, WorkerStep(w) \/ WorkerDies(w) PROVE IInv'
    BY <1>2, FloorInd, ClaimInd, BrowserInd, SettleInd DEF WorkerStep
  <1>3. QED
    BY <1>1, <1>2, PressInd, StartInd, WalkInd DEF Next

\* The invariant holds in every reachable state.
THEOREM Invariance == Spec => []IInv
  <1>1. QED
    BY InitIInv, StepIInv, PTL DEF Spec

-----------------------------------------------------------------------------
(* What follows from the invariant                                         *)

\* Every variable keeps its type: in particular tries stays within
\* 0..MAX_TRIES through claims, rehearsals, parking and retries.
THEOREM TypeCorrect == Spec => []TypeOK
  <1>1. IInv => TypeOK
    BY DEF IInv
  <1>2. QED
    BY <1>1, Invariance, PTL

\* The floor lock keeps every two browsers apart, executions and walk alike,
\* however they die and are restarted.
THEOREM MutualExclusion == Spec => []OneBrowser
  <1>1. IInv => OneBrowser
    BY NamesAssumption DEF IInv, FloorInv, OneBrowser, OpenBrowsers, Holding, Owning
  <1>2. QED
    BY <1>1, Invariance, PTL

\* A claimed row belongs to one execution until it is settled.
THEOREM ExclusiveClaims == Spec => []ClaimIsExclusive
  <1>1. IInv => ClaimIsExclusive
    <2> SUFFICES ASSUME IInv, NEW w \in Workers, pc[w] \in Owning,
                        NEW v \in Workers \ {w}
                 PROVE  job[v] # job[w]
      BY DEF ClaimIsExclusive, IInv, JobInv
    <2>1. pc[v] \notin Owning \cup Settling
      BY DEF IInv, FloorInv, Holding
    <2>2. QED
      BY <2>1, NamesAssumption DEF IInv, JobInv
  <1>2. QED
    BY <1>1, Invariance, PTL

-----------------------------------------------------------------------------
(* One record per send                                                     *)

\* A row that may still be filed has a send nobody has used up; and so has the
\* claim of an execution that has not clicked Submit.
SendInv ==
    /\ \A r \in Requests :
          /\ records[r] <= sends[r]
          /\ submit_state[r] = "approved" => records[r] < sends[r]
    /\ \A w \in Workers :
          pc[w] \in {"claimed", "releasing"} => records[job[w]] < sends[job[w]]

\* Every step keeps the count of records and sends.
LEMMA StepSendInv ==
  ASSUME ~LateFaults, IInv, SendInv, [Next]_vars
  PROVE  SendInv'
  <1> USE BoundsAssumption, NamesAssumption DEF rows, web, locals, walker, ghosts, Holding, Owning, Driving, Settling
  <1>1. CASE UNCHANGED vars
    BY <1>1 DEF SendInv, vars
  <1>2. ASSUME NEW p \in Presses, PressStep(p) \/ PressDies(p) PROVE SendInv'
    <2>1. ASSUME NEW r \in Requests, PressRead(p, r) PROVE SendInv'
      BY <2>1 DEF PressRead, SendInv
    <2>2. CASE PressQueue(p)
      BY <2>2 DEF PressQueue, SetState, SendInv, IInv, TypeOK
    <2>3. CASE PressApprove(p)
      BY <2>3 DEF PressApprove, Approve, SetState, SendInv, IInv, TypeOK, JobInv
    <2>4. CASE PressDies(p)
      BY <2>4 DEF PressDies, SendInv
    <2>5. QED
      BY <1>2, <2>1, <2>2, <2>3, <2>4 DEF PressStep
  <1>3. ASSUME NEW r \in Requests, Retry(r) PROVE SendInv'
    BY <1>3 DEF Retry, Approve, SetState, SendInv, IInv, TypeOK, JobInv
  <1>4. CASE Kick \/ ScheduleTick \/ WalkStarts \/ WalkStep \/ WalkDies
    BY <1>4 DEF Kick, ScheduleTick, StartJob, WalkStarts, WalkStep, WalkLooks, WalkKicks,
                WalkTakesFloor, WalkLeavesFloor, WalkEnds, WalkDies, SendInv, IInv, TypeOK
  <1>5. ASSUME NEW w \in Workers, WorkerStep(w) \/ WorkerDies(w) PROVE SendInv'
    <2>1. CASE \/ Arrive(w) \/ ProbeWalk(w) \/ ProbeDone(w) \/ LastTry(w) \/ WakeUp(w)
               \/ GiveUpWaiting(w) \/ ClaimNothing(w) \/ LeaveTheFloor(w) \/ WorkerDies(w)
      BY <2>1 DEF Arrive, TakeTheFloor, FloorTaken, ProbeWalk, ProbeDone, LastTry, WakeUp,
                  GiveUpWaiting, ClaimNothing, LeaveTheFloor, WorkerDies, Exit, Goto,
                  SendInv, IInv, TypeOK
    <2>2. CASE ClaimNext(w)
      BY <2>2 DEF ClaimNext, Goto, SetState, Oldest, Claimable, SendInv, IInv, TypeOK
    <2>3. CASE StopShort(w)
      BY <2>3 DEF StopShort, Goto, SendInv, IInv, TypeOK
    <2>4. CASE PressSubmit(w)
      BY <2>4 DEF PressSubmit, Goto, SendInv, IInv, TypeOK, FloorInv, JobInv
    <2>5. CASE CloseOut(w)
      BY <2>5 DEF CloseOut, Goto, SendInv, IInv, TypeOK
    <2>6. CASE LateFault(w)
      BY <2>6 DEF LateFault
    <2>7. CASE FinishFiled(w) \/ Park(w)
      BY <2>7 DEF FinishFiled, Park, Goto, SetState, SendInv, IInv, TypeOK, JobInv
    <2>8. CASE LinkRequest(w) \/ ParkTries(w) \/ UncountTry(w)
      BY <2>8 DEF LinkRequest, ParkTries, UncountTry, NextTurn, Goto, SendInv, IInv, TypeOK
    <2>9. CASE Rehearse(w)
      BY <2>9 DEF Rehearse, Goto, SetState, SendInv, IInv, TypeOK
    <2>10. CASE Release(w)
      BY <2>10 DEF Release, NextTurn, Goto, SetState, SendInv, IInv, TypeOK, FloorInv
    <2>11. QED
      BY <1>5, <2>1, <2>2, <2>3, <2>4, <2>5, <2>6, <2>7, <2>8, <2>9, <2>10 DEF WorkerStep
  <1>6. QED
    BY <1>1, <1>2, <1>3, <1>4, <1>5 DEF Next

\* As long as the browser does not fail after the click, one send makes at
\* most one City record, through crashes, misread pages, parking and retries.
THEOREM OneRecordEach ==
  ASSUME ~LateFaults
  PROVE  Spec => []OneRecordPerSend
  <1>1. Init => SendInv
    BY DEF Init, SendInv
  <1>2. IInv /\ SendInv /\ [Next]_vars => SendInv'
    BY StepSendInv
  <1>3. SendInv => OneRecordPerSend
    BY DEF SendInv, OneRecordPerSend
  <1>4. QED
    BY <1>1, <1>2, <1>3, Invariance, PTL DEF Spec

-----------------------------------------------------------------------------
(* What a row carries in each of its states                                *)

\* A filing is only linked once its row is filed.
LinkInv ==
    \A w \in Workers : pc[w] = "linking" => submit_state[job[w]] = "filed"

\* What is kept of a row goes with its state.
RowInv == ContactWhileNeeded /\ FiledIsRecorded /\ LinkInv

\* Every step keeps what is known of a row.
LEMMA StepRowInv ==
  ASSUME IInv, RowInv, [Next]_vars
  PROVE  RowInv'
  <1> USE BoundsAssumption, NamesAssumption
      DEF rows, web, locals, walker, ghosts, Holding, Owning, Driving, Settling,
          RowInv, ContactWhileNeeded, FiledIsRecorded, LinkInv
  <1>1. CASE UNCHANGED vars
    BY <1>1 DEF vars
  <1>2. ASSUME NEW p \in Presses, PressStep(p) \/ PressDies(p) PROVE RowInv'
    <2>1. ASSUME NEW r \in Requests, PressRead(p, r) PROVE RowInv'
      BY <2>1 DEF PressRead
    <2>2. CASE PressQueue(p)
      BY <2>2 DEF PressQueue, SetState, IInv, TypeOK, JobInv
    <2>3. CASE PressApprove(p)
      BY <2>3 DEF PressApprove, Approve, SetState, IInv, TypeOK, JobInv
    <2>4. CASE PressDies(p)
      BY <2>4 DEF PressDies
    <2>5. QED
      BY <1>2, <2>1, <2>2, <2>3, <2>4 DEF PressStep
  <1>3. ASSUME NEW r \in Requests, Retry(r) PROVE RowInv'
    BY <1>3 DEF Retry, Approve, SetState, IInv, TypeOK, JobInv
  <1>4. CASE Kick \/ ScheduleTick \/ WalkStarts \/ WalkStep \/ WalkDies
    BY <1>4 DEF Kick, ScheduleTick, StartJob, WalkStarts, WalkStep, WalkLooks, WalkKicks,
                WalkTakesFloor, WalkLeavesFloor, WalkEnds, WalkDies, IInv, TypeOK
  <1>5. ASSUME NEW w \in Workers, WorkerStep(w) \/ WorkerDies(w) PROVE RowInv'
    <2>1. CASE \/ Arrive(w) \/ ProbeWalk(w) \/ ProbeDone(w) \/ LastTry(w) \/ WakeUp(w)
               \/ GiveUpWaiting(w) \/ ClaimNothing(w) \/ LeaveTheFloor(w) \/ WorkerDies(w)
      BY <2>1 DEF Arrive, TakeTheFloor, FloorTaken, ProbeWalk, ProbeDone, LastTry, WakeUp,
                  GiveUpWaiting, ClaimNothing, LeaveTheFloor, WorkerDies, Exit, Goto,
                  IInv, TypeOK
    <2>2. CASE ClaimNext(w)
      BY <2>2 DEF ClaimNext, Goto, SetState, Oldest, Claimable, IInv, TypeOK
    <2>3. CASE StopShort(w) \/ PressSubmit(w) \/ LateFault(w)
      BY <2>3 DEF StopShort, PressSubmit, LateFault, Goto, IInv, TypeOK
    <2>4. CASE CloseOut(w)
      BY <2>4 DEF CloseOut, Goto, IInv, TypeOK, JobInv
    <2>5. CASE FinishFiled(w)
      BY <2>5 DEF FinishFiled, Goto, SetState, IInv, TypeOK, JobInv
    <2>6. CASE LinkRequest(w)
      BY <2>6 DEF LinkRequest, NextTurn, Goto, IInv, TypeOK, JobInv
    <2>7. CASE Park(w)
      BY <2>7 DEF Park, Goto, SetState, IInv, TypeOK, JobInv
    <2>8. CASE ParkTries(w) \/ UncountTry(w)
      BY <2>8 DEF ParkTries, UncountTry, NextTurn, Goto, IInv, TypeOK
    <2>9. CASE Rehearse(w)
      BY <2>9 DEF Rehearse, Goto, SetState, IInv, TypeOK, JobInv
    <2>10. CASE Release(w)
      BY <2>10 DEF Release, NextTurn, Goto, SetState, IInv, TypeOK, JobInv
    <2>11. QED
      BY <1>5, <2>1, <2>2, <2>3, <2>4, <2>5, <2>6, <2>7, <2>8, <2>9, <2>10 DEF WorkerStep
  <1>6. QED
    BY <1>1, <1>2, <1>3, <1>4, <1>5 DEF Next

\* What is known of a row holds in every reachable state.
LEMMA RowInvariance == Spec => []RowInv
  <1>1. Init => RowInv
    BY NamesAssumption DEF Init, RowInv, ContactWhileNeeded, FiledIsRecorded, LinkInv
  <1>2. IInv /\ RowInv /\ [Next]_vars => RowInv'
    BY StepRowInv
  <1>3. QED
    BY <1>1, <1>2, Invariance, PTL DEF Spec

\* The contact details are on a row exactly as long as a filing may still need
\* them, through late presses, rehearsals, releases, parking, retries, crashes.
THEOREM ContactKept == Spec => []ContactWhileNeeded
  <1>1. RowInv => ContactWhileNeeded
    BY DEF RowInv
  <1>2. QED
    BY <1>1, RowInvariance, PTL

\* A filed row has its number and its filing time, and only a filed row is
\* ever linked as the person's own.
THEOREM FilingsRecorded == Spec => []FiledIsRecorded
  <1>1. RowInv => FiledIsRecorded
    BY DEF RowInv
  <1>2. QED
    BY <1>1, RowInvariance, PTL

\* Nothing moves a filed row again.
THEOREM FiledStays == Spec => FiledIsFinal
  <1> DEFINE Stays(r) == submit_state[r] = "filed" =>
                 submit_state'[r] = "filed" /\ case'[r] = case[r] /\ contact'[r] = None
  <1>1. ASSUME IInv, RowInv, RowInv', [Next]_vars, NEW r \in Requests, submit_state[r] = "filed"
        PROVE  submit_state'[r] = "filed" /\ case'[r] = case[r]
    <2> USE <1>1, NamesAssumption
        DEF rows, web, locals, walker, ghosts, Owning, Driving, Settling
    <2>1. CASE UNCHANGED vars
      BY <2>1 DEF vars
    <2>2. ASSUME NEW p \in Presses, PressStep(p) \/ PressDies(p)
          PROVE  submit_state'[r] = "filed" /\ case'[r] = case[r]
      BY <2>2 DEF PressStep, PressRead, PressQueue, PressApprove, PressDies, Approve, SetState,
                  IInv, TypeOK
    <2>3. ASSUME NEW q \in Requests, Retry(q)
          PROVE  submit_state'[r] = "filed" /\ case'[r] = case[r]
      BY <2>3 DEF Retry, Approve, SetState, IInv, TypeOK
    <2>4. CASE Kick \/ ScheduleTick \/ WalkStarts \/ WalkStep \/ WalkDies
      BY <2>4 DEF Kick, ScheduleTick, WalkStarts, WalkStep, WalkLooks, WalkKicks,
                  WalkTakesFloor, WalkLeavesFloor, WalkEnds, WalkDies
    <2>5. ASSUME NEW w \in Workers, WorkerStep(w) \/ WorkerDies(w)
          PROVE  submit_state'[r] = "filed" /\ case'[r] = case[r]
      <3>1. CASE \/ Arrive(w) \/ ProbeWalk(w) \/ ProbeDone(w) \/ LastTry(w) \/ WakeUp(w)
                 \/ GiveUpWaiting(w) \/ ClaimNothing(w) \/ LeaveTheFloor(w) \/ WorkerDies(w)
                 \/ StopShort(w) \/ PressSubmit(w) \/ LateFault(w)
        BY <3>1 DEF Arrive, TakeTheFloor, FloorTaken, ProbeWalk, ProbeDone, LastTry, WakeUp,
                    GiveUpWaiting, ClaimNothing, LeaveTheFloor, WorkerDies, StopShort,
                    PressSubmit, LateFault
      <3>2. CASE LinkRequest(w) \/ ParkTries(w) \/ UncountTry(w)
        BY <3>2 DEF LinkRequest, ParkTries, UncountTry
      <3>3. CASE ClaimNext(w)
        BY <3>3 DEF ClaimNext, SetState, Oldest, Claimable, IInv, TypeOK
      <3>4. CASE \/ CloseOut(w) \/ FinishFiled(w) \/ Park(w) \/ Rehearse(w) \/ Release(w)
        <4>1. pc[w] \in Owning /\ job[w] # r
          BY <3>4 DEF CloseOut, FinishFiled, Park, Rehearse, Release, NextTurn, Goto, IInv, JobInv
        <4>2. QED
          BY <3>4, <4>1 DEF CloseOut, FinishFiled, Park, Rehearse, Release, SetState, IInv, TypeOK
      <3>5. QED
        BY <2>5, <3>1, <3>2, <3>3, <3>4 DEF WorkerStep
    <2>6. QED
      BY <2>1, <2>2, <2>3, <2>4, <2>5 DEF Next
  <1>2. IInv /\ RowInv /\ RowInv' /\ [Next]_vars => [\A r \in Requests : Stays(r)]_vars
    BY <1>1 DEF RowInv, ContactWhileNeeded
  <1>3. QED
    BY <1>2, Invariance, RowInvariance, PTL DEF Spec, FiledIsFinal

-----------------------------------------------------------------------------
(* The damage of a failing browser                                         *)

\* What the sends of a request allow for: MaxTries City records each.
Budget(r) == MaxTries * sends[r]

\* A row that may be filed again has records left for every try it has left;
\* a claim whose Submit was not clicked, for the try that was counted too.
BudgetInv ==
    /\ \A r \in Requests :
          /\ records[r] <= Budget(r)
          /\ submit_state[r] \in {"approved", "filing"} =>
                records[r] + MaxTries <= Budget(r) + tries[r]
    /\ \A w \in Workers : pc[w] \in {"claimed", "uncounting"} =>
          records[job[w]] + MaxTries + 1 <= Budget(job[w]) + tries[job[w]]

\* A send adds MaxTries to the budget of its request and of no other.
LEMMA SendBudget ==
  ASSUME NEW r \in Requests, IInv, sends' = [sends EXCEPT ![r] = @ + 1]
  PROVE  /\ Budget(r)' = Budget(r) + MaxTries
         /\ \A q \in Requests \ {r} : Budget(q)' = Budget(q)
  <1>1. sends[r] \in Nat /\ sends'[r] = sends[r] + 1
    BY DEF IInv, TypeOK
  <1>2. \A m, n \in Nat : m * (n + 1) = m * n + m
    OBVIOUS
  <1>3. \A q \in Requests \ {r} : sends'[q] = sends[q]
    BY DEF IInv, TypeOK
  <1>4. QED
    BY <1>1, <1>2, <1>3, BoundsAssumption DEF Budget

\* Every step keeps the budget.
LEMMA StepBudgetInv ==
  ASSUME IInv, BudgetInv, [Next]_vars
  PROVE  BudgetInv'
  <1> USE BoundsAssumption, NamesAssumption
      DEF rows, web, locals, walker, ghosts, Holding, Owning, Driving, Settling
  <1>0. /\ \A r \in Requests : records[r] \in Nat /\ tries[r] \in 0..MaxTries
        /\ \A r \in Requests : Budget(r) \in Nat
        /\ \A w \in Workers : pc[w] \in {"claimed", "uncounting"} => job[w] \in Requests
    <2>1. \A m, n \in Nat : m * n \in Nat
      OBVIOUS
    <2>2. QED
      BY <2>1 DEF IInv, TypeOK, JobInv, Budget
  <1>1. CASE UNCHANGED vars
    BY <1>1 DEF BudgetInv, Budget, vars
  <1>2. ASSUME NEW p \in Presses, PressStep(p) \/ PressDies(p) PROVE BudgetInv'
    <2>1. ASSUME NEW r \in Requests, PressRead(p, r) PROVE BudgetInv'
      BY <2>1 DEF PressRead, BudgetInv, Budget
    <2>2. CASE PressQueue(p)
      <3>1. \A r \in Requests : Budget(r)' = Budget(r)
        BY <2>2 DEF PressQueue, Budget
      <3>2. QED
        BY <1>0, <2>2, <3>1 DEF PressQueue, SetState, BudgetInv, IInv, TypeOK
    <2>3. CASE PressApprove(p)
      <3>1. CASE target[p] \in Requests /\ submit_state[target[p]] = "queued"
        <4>1. /\ Budget(target[p])' = Budget(target[p]) + MaxTries
              /\ \A q \in Requests \ {target[p]} : Budget(q)' = Budget(q)
          BY <2>3, <3>1, SendBudget DEF PressApprove, Approve
        <4>2. \A w \in Workers : pc[w] \in {"claimed", "uncounting"} => job[w] # target[p]
          BY <3>1 DEF IInv, JobInv
        <4>3. QED
          BY <1>0, <2>3, <3>1, <4>1, <4>2
             DEF PressApprove, Approve, SetState, BudgetInv, IInv, TypeOK
      <3>2. CASE ~(target[p] \in Requests /\ submit_state[target[p]] = "queued")
        <4>1. \A r \in Requests : submit_state'[r] = submit_state[r] /\ Budget(r)' = Budget(r)
          BY <2>3, <3>2 DEF PressApprove, Approve, SetState, IInv, TypeOK, Budget
        <4>2. QED
          BY <1>0, <2>3, <4>1 DEF PressApprove, BudgetInv
      <3>3. QED
        BY <3>1, <3>2
    <2>4. CASE PressDies(p)
      BY <2>4 DEF PressDies, BudgetInv, Budget
    <2>5. QED
      BY <1>2, <2>1, <2>2, <2>3, <2>4 DEF PressStep
  <1>3. ASSUME NEW r \in Requests, Retry(r) PROVE BudgetInv'
    <2>1. /\ Budget(r)' = Budget(r) + MaxTries
          /\ \A q \in Requests \ {r} : Budget(q)' = Budget(q)
      BY <1>3, SendBudget DEF Retry, Approve
    <2>2. \A w \in Workers : pc[w] \in {"claimed", "uncounting"} => job[w] # r
      BY <1>3 DEF Retry, IInv, JobInv
    <2>3. QED
      BY <1>0, <1>3, <2>1, <2>2 DEF Retry, Approve, SetState, BudgetInv, IInv, TypeOK
  <1>4. CASE Kick \/ ScheduleTick \/ WalkStarts \/ WalkStep \/ WalkDies
    BY <1>4 DEF Kick, ScheduleTick, StartJob, WalkStarts, WalkStep, WalkLooks, WalkKicks,
                WalkTakesFloor, WalkLeavesFloor, WalkEnds, WalkDies, BudgetInv, Budget,
                IInv, TypeOK
  <1>5. ASSUME NEW w \in Workers, WorkerStep(w) \/ WorkerDies(w) PROVE BudgetInv'
    <2>0. \A r \in Requests : Budget(r)' = Budget(r)
      BY <1>5 DEF WorkerStep, Arrive, TakeTheFloor, FloorTaken, ProbeWalk, ProbeDone, LastTry,
                  WakeUp, GiveUpWaiting, ClaimNext, ClaimNothing, LeaveTheFloor, WorkerDies,
                  StopShort, PressSubmit, CloseOut, LateFault, FinishFiled, LinkRequest, Park,
                  ParkTries, Rehearse, UncountTry, Release, Budget
    <2> USE <1>0, <2>0
    <2>1. CASE \/ Arrive(w) \/ ProbeWalk(w) \/ ProbeDone(w) \/ LastTry(w) \/ WakeUp(w)
               \/ GiveUpWaiting(w) \/ ClaimNothing(w) \/ LeaveTheFloor(w) \/ WorkerDies(w)
      BY <2>1 DEF Arrive, TakeTheFloor, FloorTaken, ProbeWalk, ProbeDone, LastTry, WakeUp,
                  GiveUpWaiting, ClaimNothing, LeaveTheFloor, WorkerDies, Exit, Goto,
                  BudgetInv, IInv, TypeOK
    <2>2. CASE ClaimNext(w)
      BY <2>2 DEF ClaimNext, Goto, SetState, Oldest, Claimable, BudgetInv, IInv, TypeOK,
                  FloorInv, JobInv
    <2>3. CASE StopShort(w) \/ CloseOut(w) \/ LateFault(w)
      BY <2>3 DEF StopShort, CloseOut, LateFault, Goto, BudgetInv, IInv, TypeOK
    <2>4. CASE PressSubmit(w)
      BY <2>4 DEF PressSubmit, Goto, BudgetInv, IInv, TypeOK, FloorInv, JobInv
    <2>5. CASE FinishFiled(w) \/ Park(w)
      BY <2>5 DEF FinishFiled, Park, Goto, SetState, BudgetInv, IInv, TypeOK, JobInv
    <2>6. CASE LinkRequest(w)
      BY <2>6 DEF LinkRequest, NextTurn, Goto, BudgetInv, IInv, TypeOK
    <2>7. CASE ParkTries(w)
      BY <2>7 DEF ParkTries, NextTurn, Goto, BudgetInv, IInv, TypeOK, FloorInv, JobInv
    <2>8. CASE Rehearse(w)
      BY <2>8 DEF Rehearse, Goto, SetState, BudgetInv, IInv, TypeOK, JobInv
    <2>9. CASE UncountTry(w)
      BY <2>9 DEF UncountTry, NextTurn, Goto, BudgetInv, IInv, TypeOK, FloorInv, JobInv
    <2>10. CASE Release(w)
      BY <2>10 DEF Release, NextTurn, Goto, SetState, BudgetInv, IInv, TypeOK, FloorInv, JobInv
    <2>11. QED
      BY <1>5, <2>1, <2>2, <2>3, <2>4, <2>5, <2>6, <2>7, <2>8, <2>9, <2>10 DEF WorkerStep
  <1>6. QED
    BY <1>1, <1>2, <1>3, <1>4, <1>5 DEF Next

\* However the browser fails after the click, one send makes at most MAX_TRIES
\* City records: rehearsals give back only tries that made none, and a parked
\* row that is retried meanwhile does not gain any.
THEOREM BoundedDamage == Spec => []DamageIsBounded
  <1>1. Init => BudgetInv
    BY BoundsAssumption DEF Init, BudgetInv, Budget
  <1>2. IInv /\ BudgetInv /\ [Next]_vars => BudgetInv'
    BY StepBudgetInv
  <1>3. BudgetInv => DamageIsBounded
    BY DEF BudgetInv, Budget, DamageIsBounded
  <1>4. QED
    BY <1>1, <1>2, <1>3, Invariance, PTL DEF Spec

-----------------------------------------------------------------------------
(* The refinement: SubmissionQueue implements FilingContract, as long as   *)
(* the browser does not fail after the click and no stranger's number is   *)
(* read as ours.                                                           *)

\* A handler that read a row knows which row it read.
PressInv ==
    \A p \in Presses : press[p] \in {"read", "queued"} => target[p] \in Requests

\* A number the page showed as ours is that of a City record.
ReadInv ==
    \A w \in Workers : pc[w] \in {"clicked", "submitted"} =>
        /\ read[w] # "foreign"
        /\ read[w] = "ours" => records[job[w]] > 0

RInv == IInv /\ SendInv /\ PressInv /\ ReadInv

\* The invariant of the refinement holds at first.
LEMMA InitRInv == Init => RInv
  BY InitIInv DEF Init, RInv, SendInv, PressInv, ReadInv

\* Every step keeps what a handler knows of its row.
LEMMA StepPressInv ==
  ASSUME IInv, PressInv, [Next]_vars
  PROVE  PressInv'
  <1> USE DEF rows, web, locals, walker, ghosts
  <1>1. CASE \E p \in Presses : PressStep(p) \/ PressDies(p)
    BY <1>1 DEF PressStep, PressRead, PressQueue, PressApprove, PressDies, PressInv, IInv, TypeOK
  <1>2. CASE UNCHANGED web
    BY <1>2 DEF PressInv
  <1>3. ASSUME NEW w \in Workers, WorkerStep(w) \/ WorkerDies(w) PROVE UNCHANGED web
    BY <1>3 DEF WorkerStep, WorkerDies, Arrive, TakeTheFloor, FloorTaken, ProbeWalk, ProbeDone,
         LastTry, WakeUp, GiveUpWaiting, ClaimNext, ClaimNothing, LeaveTheFloor, StopShort,
         PressSubmit, CloseOut, LateFault, FinishFiled, LinkRequest, Park, ParkTries, Rehearse,
         UncountTry, Release
  <1>4. ASSUME \/ UNCHANGED vars \/ Kick \/ ScheduleTick \/ WalkStarts \/ WalkStep \/ WalkDies
               \/ \E r \in Requests : Retry(r)
        PROVE  UNCHANGED web
    BY <1>4 DEF vars, Kick, ScheduleTick, WalkStarts, WalkStep, WalkDies, WalkLooks, WalkKicks,
         WalkTakesFloor, WalkLeavesFloor, WalkEnds, Retry
  <1>5. QED
    BY <1>1, <1>2, <1>3, <1>4 DEF Next

\* Every step keeps what the page was read to show.
LEMMA StepReadInv ==
  ASSUME ~Misreads, IInv, ReadInv, [Next]_vars
  PROVE  ReadInv'
  <1> USE NamesAssumption DEF rows, web, locals, walker, ghosts, Holding, Owning, Driving, Settling
  <1>1. CASE UNCHANGED vars
    BY <1>1 DEF ReadInv, vars
  <1>2. ASSUME NEW p \in Presses, PressStep(p) \/ PressDies(p) PROVE ReadInv'
    BY <1>2 DEF PressStep, PressRead, PressQueue, PressApprove, PressDies, ReadInv
  <1>3. ASSUME NEW r \in Requests, Retry(r) PROVE ReadInv'
    BY <1>3 DEF Retry, ReadInv
  <1>4. CASE Kick \/ ScheduleTick \/ WalkStarts \/ WalkStep \/ WalkDies
    BY <1>4 DEF Kick, ScheduleTick, StartJob, WalkStarts, WalkStep, WalkLooks, WalkKicks,
         WalkTakesFloor, WalkLeavesFloor, WalkEnds, WalkDies, ReadInv, IInv, TypeOK
  <1>5. ASSUME NEW w \in Workers, WorkerStep(w) \/ WorkerDies(w) PROVE ReadInv'
    <2>1. CASE \/ Arrive(w) \/ ProbeWalk(w) \/ ProbeDone(w) \/ LastTry(w) \/ WakeUp(w)
               \/ GiveUpWaiting(w) \/ ClaimNothing(w) \/ LeaveTheFloor(w) \/ WorkerDies(w)
      BY <2>1 DEF Arrive, TakeTheFloor, FloorTaken, ProbeWalk, ProbeDone, LastTry, WakeUp,
           GiveUpWaiting, ClaimNothing, LeaveTheFloor, WorkerDies, Exit, Goto,
           ReadInv, IInv, TypeOK
    <2>2. CASE ClaimNext(w) \/ StopShort(w) \/ Rehearse(w)
      BY <2>2 DEF ClaimNext, StopShort, Rehearse, Goto, ReadInv, IInv, TypeOK
    <2>3. CASE PressSubmit(w)
      BY <2>3 DEF PressSubmit, Goto, ReadInv, IInv, TypeOK, FloorInv, JobInv
    <2>4. CASE CloseOut(w) \/ LateFault(w) \/ FinishFiled(w) \/ Park(w)
      BY <2>4 DEF CloseOut, LateFault, FinishFiled, Park, Goto, ReadInv, IInv, TypeOK
    <2>5. CASE LinkRequest(w) \/ ParkTries(w) \/ UncountTry(w) \/ Release(w)
      BY <2>5 DEF LinkRequest, ParkTries, UncountTry, Release, NextTurn, Goto, ReadInv, IInv, TypeOK
    <2>6. QED
      BY <1>5, <2>1, <2>2, <2>3, <2>4, <2>5 DEF WorkerStep
  <1>6. QED
    BY <1>1, <1>2, <1>3, <1>4, <1>5 DEF Next

\* Initial states map to initial states.
LEMMA InitContract == Init => Contract!Init
  BY DEF Init, Contract!Init, Status, StatusOf

\* One row changed its state, and that is the whole of the change.
LEMMA Moved ==
  ASSUME TypeOK, NEW r \in Requests, NEW s \in States, SetState(r, s)
  PROVE  Status' = [Status EXCEPT ![r] = StatusOf(s)]
  BY DEF TypeOK, SetState, Status

\* Every step maps to a step or a stutter.
LEMMA StepContract ==
  ASSUME ~LateFaults, RInv, [Next]_vars
  PROVE  [Contract!Next]_Contract!contract
  <1> USE DEF rows, web, locals, walker, ghosts, Contract!contract
  <1>1. ASSUME UNCHANGED <<submit_state, ghosts>>
        PROVE  UNCHANGED Contract!contract
    BY <1>1 DEF Status
  <1>2. ASSUME NEW r \in Requests, NEW s \in States, SetState(r, s), UNCHANGED ghosts,
               StatusOf(submit_state[r]) = StatusOf(s)
        PROVE  UNCHANGED Contract!contract
    BY <1>2 DEF RInv, IInv, TypeOK, SetState, Status
  <1>3. ASSUME NEW r \in Requests, Approve(r), UNCHANGED records,
               submit_state[r] \in {"queued", "failed"}
        PROVE  Contract!Next
    <2>1. Status[r] \in {"open", "failed"}
      BY <1>3 DEF Status, StatusOf
    <2>2. Status' = [Status EXCEPT ![r] = "sent"]
      BY <1>3, Moved DEF RInv, IInv, Approve, States, StatusOf
    <2>3. Contract!Send(r)
      BY <1>3, <2>1, <2>2 DEF Approve, Contract!Send
    <2>4. QED
      BY <2>3 DEF Contract!Next
  <1>4. ASSUME NEW p \in Presses, PressStep(p) \/ PressDies(p)
        PROVE  [Contract!Next]_Contract!contract
    <2>1. CASE PressQueue(p)
      <3>1. target[p] \in Requests
        BY <2>1 DEF RInv, PressInv, PressQueue
      <3>2. QED
        BY <1>1, <1>2, <2>1, <3>1 DEF PressQueue, States, StatusOf
    <2>2. CASE PressApprove(p)
      <3>1. target[p] \in Requests
        BY <2>2 DEF RInv, PressInv, PressApprove
      <3>2. QED
        BY <1>1, <1>3, <2>2, <3>1 DEF PressApprove
    <2>3. QED
      BY <1>1, <1>4, <2>1, <2>2 DEF PressStep, PressRead, PressDies
  <1>5. ASSUME NEW r \in Requests, Retry(r) PROVE Contract!Next
    BY <1>3, <1>5 DEF Retry
  <1>6. ASSUME \/ UNCHANGED vars \/ Kick \/ ScheduleTick \/ WalkStarts \/ WalkStep \/ WalkDies
        PROVE  UNCHANGED Contract!contract
    BY <1>1, <1>6 DEF vars, Kick, ScheduleTick, WalkStarts, WalkStep, WalkDies, WalkLooks,
         WalkKicks, WalkTakesFloor, WalkLeavesFloor, WalkEnds
  <1>7. ASSUME NEW w \in Workers, WorkerStep(w) \/ WorkerDies(w)
        PROVE  [Contract!Next]_Contract!contract
    <2> DEFINE r == job[w]
    <2>1. CASE \/ Arrive(w) \/ ProbeWalk(w) \/ ProbeDone(w) \/ LastTry(w) \/ WakeUp(w)
               \/ GiveUpWaiting(w) \/ ClaimNothing(w) \/ LeaveTheFloor(w) \/ WorkerDies(w)
               \/ StopShort(w) \/ CloseOut(w) \/ LateFault(w) \/ LinkRequest(w)
               \/ ParkTries(w) \/ UncountTry(w)
      BY <1>1, <2>1 DEF Arrive, TakeTheFloor, FloorTaken, ProbeWalk, ProbeDone, LastTry,
           WakeUp, GiveUpWaiting, ClaimNothing, LeaveTheFloor, WorkerDies, StopShort, CloseOut,
           LateFault, LinkRequest, ParkTries, UncountTry
    <2>2. CASE ClaimNext(w)
      BY <1>2, <2>2 DEF ClaimNext, Oldest, Claimable, States, StatusOf
    <2>3. CASE PressSubmit(w)
      <3>1. r \in Requests /\ submit_state[r] = "filing" /\ records[r] < sends[r]
        BY <2>3 DEF PressSubmit, Goto, RInv, IInv, JobInv, SendInv, Owning, Driving
      <3>2. Status' = Status /\ Status[r] = "sent"
        BY <2>3, <3>1 DEF PressSubmit, Status, StatusOf
      <3>3. \/ records' = records
            \/ records' = [records EXCEPT ![r] = @ + 1]
        BY <2>3 DEF PressSubmit, RInv, IInv, TypeOK
      <3>4. CASE records' = records
        BY <2>3, <3>2, <3>4 DEF PressSubmit
      <3>5. CASE records' = [records EXCEPT ![r] = @ + 1]
        <4>1. Contract!Record(r)
          BY <2>3, <3>1, <3>2, <3>5 DEF PressSubmit, Contract!Record
        <4>2. QED
          BY <3>1, <4>1 DEF Contract!Next
      <3>6. QED
        BY <3>3, <3>4, <3>5
    <2>4. CASE FinishFiled(w)
      <3>1. r \in Requests /\ submit_state[r] = "filing" /\ records[r] > 0
        BY <2>4 DEF FinishFiled, Goto, RInv, IInv, TypeOK, JobInv, ReadInv, Owning, Driving, Numbers
      <3>2. Status' = [Status EXCEPT ![r] = "filed"] /\ Status[r] = "sent"
        BY <2>4, <3>1, Moved DEF FinishFiled, RInv, IInv, States, Status, StatusOf
      <3>3. Contract!File(r)
        BY <2>4, <3>1, <3>2 DEF FinishFiled, Contract!File
      <3>4. QED
        BY <3>1, <3>3 DEF Contract!Next
    <2>5. CASE Park(w)
      <3>1. r \in Requests /\ submit_state[r] = "filing"
        BY <2>5 DEF Park, Goto, RInv, IInv, JobInv, Owning, Driving
      <3>2. Status' = [Status EXCEPT ![r] = "failed"] /\ Status[r] = "sent"
        BY <2>5, <3>1, Moved DEF Park, RInv, IInv, States, Status, StatusOf
      <3>3. Contract!Fail(r)
        BY <2>5, <3>2 DEF Park, Contract!Fail
      <3>4. QED
        BY <3>1, <3>3 DEF Contract!Next
    <2>6. CASE Rehearse(w)
      <3>1. r \in Requests /\ submit_state[r] = "filing"
        BY <2>6 DEF Rehearse, Goto, RInv, IInv, JobInv, Owning, Driving
      <3>2. QED
        BY <1>2, <2>6, <3>1 DEF Rehearse, States, StatusOf
    <2>7. CASE Release(w)
      <3>1. r \in Requests /\ submit_state[r] = "filing"
        BY <2>7 DEF Release, NextTurn, Goto, RInv, IInv, JobInv, Owning, Driving
      <3>2. CASE SetState(r, "approved")
        BY <1>2, <2>7, <3>1, <3>2 DEF Release, States, StatusOf
      <3>3. CASE SetState(r, "failed")
        <4>1. Status' = [Status EXCEPT ![r] = "failed"] /\ Status[r] = "sent"
          BY <3>1, <3>3, Moved DEF RInv, IInv, States, Status, StatusOf
        <4>2. Contract!Fail(r)
          BY <2>7, <4>1 DEF Release, Contract!Fail
        <4>3. QED
          BY <3>1, <4>2 DEF Contract!Next
      <3>4. QED
        BY <2>7, <3>2, <3>3 DEF Release
    <2>8. QED
      BY <1>7, <2>1, <2>2, <2>3, <2>4, <2>5, <2>6, <2>7 DEF WorkerStep
  <1>8. QED
    BY <1>4, <1>5, <1>6, <1>7 DEF Next

\* The queue keeps its contract: nothing is filed that nobody sent, a send
\* makes at most one City record, filed means the City has one and is final.
THEOREM QueueKeepsContract ==
  ASSUME ~LateFaults, ~Misreads
  PROVE  Spec => KeepsContract
  <1>1. RInv /\ [Next]_vars => RInv'
    BY StepIInv, StepSendInv, StepPressInv, StepReadInv DEF RInv
  <1>2. RInv /\ [Next]_vars => [Contract!Next]_Contract!contract
    BY StepContract
  <1>3. QED
    BY InitRInv, InitContract, <1>1, <1>2, PTL DEF Spec, KeepsContract, Contract!Spec
=============================================================================
