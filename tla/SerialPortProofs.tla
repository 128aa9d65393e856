-------------------------- MODULE SerialPortProofs --------------------------
(***************************************************************************)
(* Proofs about SerialPort, for every client that closes the port only     *)
(* when no request is outstanding (CloseBusy = FALSE).  IInv is inductive: *)
(* one lemma per conjunct says that every step keeps it.                   *)
(***************************************************************************)
EXTENDS SerialPort, TLAPS

\* Every step keeps the types; a semaphore is posted only when it is 0.
LEMMA TypeOKKept ==
  ASSUME IInv, [Next]_vars, CloseBusy = FALSE
  PROVE  TypeOK'
<1> USE DirsAssumption DEF IInv, TypeOK, ThreadPC, EmuPC
<1>1. CASE SerialOpen
  <2>1. pending' \in [Dirs -> BOOLEAN] /\ done' \in [Dirs -> BOOLEAN]
    BY <1>1, Zenon DEF SerialOpen
  <2>2. signal' \in [Dirs -> 0 .. 2] /\ tpc' \in [Dirs -> ThreadPC]
    BY <1>1 DEF SerialOpen
  <2> QED
    BY <1>1, <2>1, <2>2 DEF SerialOpen, mac
<1>2. CASE NewPtrReturns
  <2>1. signal["in"] \in {0, 1}
    BY <1>2 DEF NewPtrReturns, QuietOK
  <2>2. signal' \in [Dirs -> 0 .. 2]
    BY <1>2, <2>1 DEF NewPtrReturns
  <2> QED
    BY <1>2, <2>2 DEF NewPtrReturns
<1>3. CASE KillIO
  BY <1>3 DEF KillIO, Calling, threads, mac
<1>4. CASE KillIOReturns
  BY <1>4 DEF KillIOReturns, threads, mac
<1>5. CASE SerialClose
  <2>1. signal["in"] \in {0, 1}
    BY <1>5 DEF QuietOK
  <2> QED
    BY <1>5, <2>1 DEF SerialClose, mac
<1>6. CASE JoinInput
  <2>1. signal["out"] \in {0, 1}
    BY <1>6 DEF QuietOK
  <2>2. signal' \in [Dirs -> 0 .. 2]
    BY <1>6, <2>1 DEF JoinInput
  <2> QED
    BY <1>6, <2>2 DEF JoinInput, port, mac
<1>7. CASE JoinOutput
  BY <1>7 DEF JoinOutput, port, mac
<1>8. CASE DisposePtr
  BY <1>8 DEF DisposePtr, port, threads
<1>9. CASE SerialCloseReturns
  BY <1>9 DEF SerialCloseReturns, threads
<1>10. CASE TakeInterrupt
  BY <1>10 DEF TakeInterrupt, In68k, port, threads, mac
<1>11. CASE SerialInterrupt
  BY <1>11 DEF SerialInterrupt, Finished, threads
<1>12. ASSUME NEW d \in Dirs, SerialPrime(d) PROVE TypeOK'
  <2>1. signal[d] \in {0, 1}
    BY <1>12 DEF SerialPrime, QuietOK
  <2>2. signal' \in [Dirs -> 0 .. 2]
    BY <1>12, <2>1 DEF SerialPrime
  <2>3. done' \in [Dirs -> BOOLEAN] /\ pending' \in [Dirs -> BOOLEAN] /\ issued' \in [Dirs -> BOOLEAN]
    BY <1>12 DEF SerialPrime
  <2> QED
    BY <1>12, <2>2, <2>3 DEF SerialPrime
<1>13. ASSUME NEW d \in Dirs, SemWait(d) PROVE TypeOK'
  BY <1>13 DEF SemWait, port, mac
<1>14. ASSUME NEW d \in Dirs, Transfer(d) PROVE TypeOK'
  BY <1>14 DEF Transfer, port, mac
<1>15. ASSUME NEW d \in Dirs, TestKilled(d) PROVE TypeOK'
  BY <1>15 DEF TestKilled, port, mac
<1>16. ASSUME NEW d \in Dirs, Abort(d) PROVE TypeOK'
  BY <1>16 DEF Abort
<1>17. ASSUME NEW d \in Dirs, SetDone(d) PROVE TypeOK'
  BY <1>17 DEF SetDone, mac
<1>18. ASSUME NEW d \in Dirs, Raise(d) PROVE TypeOK'
  BY <1>18 DEF Raise, port, mac
<1>19. ASSUME NEW d \in Dirs, DeferredTask(d) PROVE TypeOK'
  BY <1>19 DEF DeferredTask, In68k, port, threads
<1>20. CASE UNCHANGED vars
  BY <1>20 DEF vars, port, threads, mac
<1> QED
  BY <1>1, <1>2, <1>3, <1>4, <1>5, <1>6, <1>7, <1>8, <1>9, <1>10, <1>11,
    <1>12, <1>13, <1>14, <1>15, <1>16, <1>17, <1>18, <1>19, <1>20 DEF Next, Thread

\* Every step keeps the phases of the emulator thread and of the port in step.
LEMMA PhaseOKKept ==
  ASSUME IInv, [Next]_vars, CloseBusy = FALSE
  PROVE  PhaseOK'
<1> USE DirsAssumption DEF IInv, TypeOK, ThreadPC, EmuPC
<1>1. CASE SerialOpen
  BY <1>1 DEF SerialOpen, Calling, mac, PhaseOK, ThreadsOK, QuietOK
<1>2. CASE NewPtrReturns
  BY <1>2 DEF NewPtrReturns, PhaseOK, ThreadsOK, QuietOK
<1>3. CASE KillIO
  BY <1>3 DEF KillIO, Calling, threads, mac, PhaseOK, ThreadsOK, QuietOK
<1>4. CASE KillIOReturns
  BY <1>4 DEF KillIOReturns, threads, mac, PhaseOK, ThreadsOK, QuietOK
<1>5. CASE SerialClose
  BY <1>5 DEF SerialClose, Calling, mac, PhaseOK, ThreadsOK, QuietOK
<1>6. CASE JoinInput
  BY <1>6 DEF JoinInput, port, mac, PhaseOK, ThreadsOK, QuietOK
<1>7. CASE JoinOutput
  BY <1>7 DEF JoinOutput, port, mac, PhaseOK, ThreadsOK, QuietOK
<1>8. CASE DisposePtr
  BY <1>8 DEF DisposePtr, port, threads, PhaseOK, ThreadsOK, QuietOK
<1>9. CASE SerialCloseReturns
  BY <1>9 DEF SerialCloseReturns, threads, PhaseOK, ThreadsOK, QuietOK
<1>10. CASE TakeInterrupt
  BY <1>10 DEF TakeInterrupt, In68k, port, threads, mac, PhaseOK, ThreadsOK,
    QuietOK
<1>11. CASE SerialInterrupt
  BY <1>11 DEF SerialInterrupt, Finished, threads, PhaseOK, ThreadsOK, QuietOK
<1>12. ASSUME NEW d \in Dirs, SerialPrime(d) PROVE PhaseOK'
  BY <1>12 DEF SerialPrime, Calling, PhaseOK, ThreadsOK, QuietOK
<1>13. ASSUME NEW d \in Dirs, SemWait(d) PROVE PhaseOK'
  BY <1>13 DEF SemWait, port, mac, PhaseOK, ThreadsOK, QuietOK
<1>14. ASSUME NEW d \in Dirs, Transfer(d) PROVE PhaseOK'
  BY <1>14 DEF Transfer, port, mac, PhaseOK, ThreadsOK, QuietOK
<1>15. ASSUME NEW d \in Dirs, TestKilled(d) PROVE PhaseOK'
  BY <1>15 DEF TestKilled, port, mac, PhaseOK, ThreadsOK, QuietOK
<1>16. ASSUME NEW d \in Dirs, Abort(d) PROVE PhaseOK'
  BY <1>16 DEF Abort, PhaseOK, ThreadsOK, QuietOK
<1>17. ASSUME NEW d \in Dirs, SetDone(d) PROVE PhaseOK'
  BY <1>17 DEF SetDone, mac, PhaseOK, ThreadsOK, QuietOK
<1>18. ASSUME NEW d \in Dirs, Raise(d) PROVE PhaseOK'
  BY <1>18 DEF Raise, port, mac, PhaseOK, ThreadsOK, QuietOK
<1>19. ASSUME NEW d \in Dirs, DeferredTask(d) PROVE PhaseOK'
  BY <1>19 DEF DeferredTask, In68k, port, threads, PhaseOK, ThreadsOK, QuietOK
<1>20. CASE UNCHANGED vars
  BY <1>20 DEF vars, port, threads, mac, PhaseOK, ThreadsOK, QuietOK
<1> QED
  BY <1>1, <1>2, <1>3, <1>4, <1>5, <1>6, <1>7, <1>8, <1>9, <1>10, <1>11,
    <1>12, <1>13, <1>14, <1>15, <1>16, <1>17, <1>18, <1>19, <1>20 DEF Next, Thread

\* Every step keeps the I/O threads where the phase of the port has them.
LEMMA ThreadsOKKept ==
  ASSUME IInv, [Next]_vars, CloseBusy = FALSE
  PROVE  ThreadsOK'
<1> USE DirsAssumption DEF IInv, TypeOK, ThreadPC, EmuPC
<1>1. CASE SerialOpen
  BY <1>1 DEF SerialOpen, Calling, mac, PhaseOK, ThreadsOK, QuietOK, OneOf,
    Executing, Alive
<1>2. CASE NewPtrReturns
  BY <1>2 DEF NewPtrReturns, PhaseOK, ThreadsOK, QuietOK, OneOf, Executing,
    Alive
<1>3. CASE KillIO
  BY <1>3 DEF KillIO, Calling, threads, mac, PhaseOK, ThreadsOK, QuietOK,
    OneOf, Executing, Alive
<1>4. CASE KillIOReturns
  BY <1>4 DEF KillIOReturns, threads, mac, PhaseOK, ThreadsOK, QuietOK, OneOf,
    Executing, Alive
<1>5. CASE SerialClose
  BY <1>5 DEF SerialClose, Calling, mac, PhaseOK, ThreadsOK, QuietOK, OneOf,
    Executing, Alive
<1>6. CASE JoinInput
  BY <1>6 DEF JoinInput, port, mac, PhaseOK, ThreadsOK, QuietOK, OneOf,
    Executing, Alive
<1>7. CASE JoinOutput
  BY <1>7 DEF JoinOutput, port, mac, PhaseOK, ThreadsOK, QuietOK, OneOf,
    Executing, Alive
<1>8. CASE DisposePtr
  BY <1>8 DEF DisposePtr, port, threads, PhaseOK, ThreadsOK, QuietOK, OneOf,
    Executing, Alive
<1>9. CASE SerialCloseReturns
  BY <1>9 DEF SerialCloseReturns, threads, PhaseOK, ThreadsOK, QuietOK, OneOf,
    Executing, Alive
<1>10. CASE TakeInterrupt
  BY <1>10 DEF TakeInterrupt, In68k, port, threads, mac, PhaseOK, ThreadsOK,
    QuietOK, OneOf, Executing, Alive
<1>11. CASE SerialInterrupt
  BY <1>11 DEF SerialInterrupt, Finished, threads, PhaseOK, ThreadsOK, QuietOK,
    OneOf, Executing, Alive
<1>12. ASSUME NEW d \in Dirs, SerialPrime(d) PROVE ThreadsOK'
  BY <1>12 DEF SerialPrime, Calling, PhaseOK, ThreadsOK, QuietOK, OneOf,
    Executing, Alive
<1>13. ASSUME NEW d \in Dirs, SemWait(d) PROVE ThreadsOK'
  BY <1>13 DEF SemWait, port, mac, PhaseOK, ThreadsOK, QuietOK, OneOf,
    Executing, Alive
<1>14. ASSUME NEW d \in Dirs, Transfer(d) PROVE ThreadsOK'
  BY <1>14 DEF Transfer, port, mac, PhaseOK, ThreadsOK, QuietOK, OneOf,
    Executing, Alive
<1>15. ASSUME NEW d \in Dirs, TestKilled(d) PROVE ThreadsOK'
  BY <1>15 DEF TestKilled, port, mac, PhaseOK, ThreadsOK, QuietOK, OneOf,
    Executing, Alive
<1>16. ASSUME NEW d \in Dirs, Abort(d) PROVE ThreadsOK'
  BY <1>16 DEF Abort, PhaseOK, ThreadsOK, QuietOK, OneOf, Executing, Alive
<1>17. ASSUME NEW d \in Dirs, SetDone(d) PROVE ThreadsOK'
  BY <1>17 DEF SetDone, mac, PhaseOK, ThreadsOK, QuietOK, OneOf, Executing,
    Alive
<1>18. ASSUME NEW d \in Dirs, Raise(d) PROVE ThreadsOK'
  BY <1>18 DEF Raise, port, mac, PhaseOK, ThreadsOK, QuietOK, OneOf, Executing,
    Alive
<1>19. ASSUME NEW d \in Dirs, DeferredTask(d) PROVE ThreadsOK'
  BY <1>19 DEF DeferredTask, In68k, port, threads, PhaseOK, ThreadsOK, QuietOK,
    OneOf, Executing, Alive
<1>20. CASE UNCHANGED vars
  BY <1>20 DEF vars, port, threads, mac, PhaseOK, ThreadsOK, QuietOK, OneOf,
    Executing, Alive
<1> QED
  BY <1>1, <1>2, <1>3, <1>4, <1>5, <1>6, <1>7, <1>8, <1>9, <1>10, <1>11,
    <1>12, <1>13, <1>14, <1>15, <1>16, <1>17, <1>18, <1>19, <1>20 DEF Next, Thread

\* Every step keeps the account of the requests.
LEMMA QuietOKKept ==
  ASSUME IInv, [Next]_vars, CloseBusy = FALSE
  PROVE  QuietOK'
<1> USE DirsAssumption DEF IInv, TypeOK, ThreadPC, EmuPC
<1>1. CASE SerialOpen
  BY <1>1 DEF SerialOpen, Calling, mac, PhaseOK, ThreadsOK, QuietOK, Finished,
    OneOf, Executing, Alive
<1>2. CASE NewPtrReturns
  BY <1>2 DEF NewPtrReturns, PhaseOK, ThreadsOK, QuietOK, Finished, OneOf,
    Executing, Alive
<1>3. CASE KillIO
  BY <1>3 DEF KillIO, Calling, threads, mac, PhaseOK, ThreadsOK, QuietOK,
    Finished, OneOf, Executing, Alive
<1>4. CASE KillIOReturns
  BY <1>4 DEF KillIOReturns, threads, mac, PhaseOK, ThreadsOK, QuietOK,
    Finished, OneOf, Executing, Alive
<1>5. CASE SerialClose
  BY <1>5 DEF SerialClose, Calling, mac, PhaseOK, ThreadsOK, QuietOK, Finished,
    OneOf, Executing, Alive
<1>6. CASE JoinInput
  <2>1. \A e \in Dirs : ~issued[e] /\ ~pending[e] /\ ~done[e]
    BY <1>6 DEF JoinInput, QuietOK
  <2>2. quitting /\ quitting'
    BY <1>6 DEF JoinInput, ThreadsOK, port
  <2>3. \A e \in Dirs : signal'[e] \in {0, 1}
    BY <1>6 DEF JoinInput, ThreadsOK
  <2>4. \A e \in Dirs : tpc'[e] \in Executing => tpc[e] \in Executing
    BY <1>6 DEF JoinInput, Executing
  <2>5. \A e \in Dirs : tpc[e] \notin Executing
    BY <2>1 DEF QuietOK
  <2> QED
    BY <1>6, <2>1, <2>2, <2>3, <2>4, <2>5 DEF JoinInput, QuietOK, port, mac
<1>7. CASE JoinOutput
  BY <1>7 DEF JoinOutput, port, mac, PhaseOK, ThreadsOK, QuietOK, Finished,
    OneOf, Executing, Alive
<1>8. CASE DisposePtr
  BY <1>8 DEF DisposePtr, port, threads, PhaseOK, ThreadsOK, QuietOK, Finished,
    OneOf, Executing, Alive
<1>9. CASE SerialCloseReturns
  BY <1>9 DEF SerialCloseReturns, threads, PhaseOK, ThreadsOK, QuietOK,
    Finished, OneOf, Executing, Alive
<1>10. CASE TakeInterrupt
  BY <1>10 DEF TakeInterrupt, In68k, port, threads, mac, PhaseOK, ThreadsOK,
    QuietOK, Finished, OneOf, Executing, Alive
<1>11. CASE SerialInterrupt
  <2>1. \A e \in Dirs : done[e] => pending[e]
    BY DEF QuietOK
  <2>7. \A e \in Dirs : pending[e] => is_open
    BY DEF QuietOK
  <2>0. \A e \in Dirs : e \in Finished <=> done[e]
    BY <2>1, <2>7, Zenon DEF Finished
  <2>2. \A e \in Dirs : ~done'[e] /\ (pending'[e] <=> pending[e] /\ ~done[e])
    BY <1>11, <2>0, Zenon DEF SerialInterrupt
  <2>3. \A e \in Dirs : e \in queued' <=> e \in queued \/ done[e]
    BY <1>11, <2>0, Zenon DEF SerialInterrupt
  <2>4. /\ issued' = issued /\ pc' = pc /\ is_open' = is_open /\ quitting' = quitting
        /\ tpc' = tpc /\ signal' = signal
    BY <1>11 DEF SerialInterrupt, threads
  <2>5. ASSUME NEW e \in Dirs, ~quitting
        PROVE  signal[e] + OneOf(e)' = IF pending'[e] THEN 1 ELSE 0
    <3>1. signal[e] + OneOf(e) = IF pending[e] THEN 1 ELSE 0
      BY <2>5 DEF QuietOK
    <3>2. signal[e] \in Nat
      OBVIOUS
    <3>3. done[e] => tpc[e] \notin Executing
      BY DEF QuietOK
    <3> QED
      BY <2>1, <2>2, <2>4, <3>1, <3>2, <3>3 DEF OneOf
  <2>6. /\ \A e \in Dirs : pending'[e] \/ e \in queued' => issued[e]
        /\ \A e \in Dirs : issued[e] => pending'[e] \/ e \in queued'
        /\ \A e \in Dirs : ~(pending'[e] /\ e \in queued')
        /\ \A e \in Dirs : tpc[e] \in Executing => pending'[e] /\ ~done'[e] /\ signal[e] = 0
    BY <2>1, <2>2, <2>3 DEF QuietOK
  <2> QED
    BY <2>2, <2>4, <2>5, <2>6 DEF QuietOK
<1>12. ASSUME NEW d \in Dirs, SerialPrime(d) PROVE QuietOK'
  BY <1>12 DEF SerialPrime, Calling, PhaseOK, ThreadsOK, QuietOK, Finished,
    OneOf, Executing, Alive
<1>13. ASSUME NEW d \in Dirs, SemWait(d) PROVE QuietOK'
  <2>1. signal[d] = 1 /\ signal' = [signal EXCEPT ![d] = 0]
    <3>1. signal[d] = 1
      BY <1>13 DEF SemWait, QuietOK
    <3> QED
      BY <1>13, <3>1 DEF SemWait
  <2>2. ~quitting => pending[d] /\ ~done[d] /\ tpc'[d] = "io"
    BY <1>13, <2>1 DEF SemWait, QuietOK, OneOf, Executing
  <2>3. quitting => tpc'[d] = "ended"
    BY <1>13 DEF SemWait
  <2>4. \A e \in Dirs : e # d => tpc'[e] = tpc[e] /\ signal'[e] = signal[e]
    BY <1>13 DEF SemWait
  <2>5. UNCHANGED << is_open, pending, done, quitting, queued, issued, pc >>
    BY <1>13 DEF SemWait, port, mac
  <2>6. \A e \in Dirs : tpc'[e] \in Executing => pending'[e] /\ ~done'[e] /\ signal'[e] = 0
    BY <2>1, <2>2, <2>3, <2>4, <2>5 DEF QuietOK, Executing
  <2>7. \A e \in Dirs : ~quitting => signal'[e] + OneOf(e)' = IF pending[e] THEN 1 ELSE 0
    BY <2>1, <2>2, <2>4, <2>5 DEF QuietOK, OneOf, Executing
  <2>8. \A e \in Dirs : signal'[e] <= 1
    BY <2>1, <2>4 DEF QuietOK
  <2> QED
    BY <2>5, <2>6, <2>7, <2>8 DEF QuietOK
<1>14. ASSUME NEW d \in Dirs, Transfer(d) PROVE QuietOK'
  BY <1>14 DEF Transfer, port, mac, PhaseOK, ThreadsOK, QuietOK, Finished,
    OneOf, Executing, Alive
<1>15. ASSUME NEW d \in Dirs, TestKilled(d) PROVE QuietOK'
  BY <1>15 DEF TestKilled, port, mac, PhaseOK, ThreadsOK, QuietOK, Finished,
    OneOf, Executing, Alive
<1>16. ASSUME NEW d \in Dirs, Abort(d) PROVE QuietOK'
  BY <1>16 DEF Abort, PhaseOK, ThreadsOK, QuietOK, Finished, OneOf, Executing,
    Alive
<1>17. ASSUME NEW d \in Dirs, SetDone(d) PROVE QuietOK'
  BY <1>17 DEF SetDone, mac, PhaseOK, ThreadsOK, QuietOK, Finished, OneOf,
    Executing, Alive
<1>18. ASSUME NEW d \in Dirs, Raise(d) PROVE QuietOK'
  BY <1>18 DEF Raise, port, mac, PhaseOK, ThreadsOK, QuietOK, Finished, OneOf,
    Executing, Alive
<1>19. ASSUME NEW d \in Dirs, DeferredTask(d) PROVE QuietOK'
  BY <1>19 DEF DeferredTask, In68k, port, threads, PhaseOK, ThreadsOK, QuietOK,
    Finished, OneOf, Executing, Alive
<1>20. CASE UNCHANGED vars
  BY <1>20 DEF vars, port, threads, mac, PhaseOK, ThreadsOK, QuietOK, Finished,
    OneOf, Executing, Alive
<1> QED
  BY <1>1, <1>2, <1>3, <1>4, <1>5, <1>6, <1>7, <1>8, <1>9, <1>10, <1>11,
    <1>12, <1>13, <1>14, <1>15, <1>16, <1>17, <1>18, <1>19, <1>20 DEF Next, Thread

\* Every step that finishes a request, or that looks at the finished ones,
\* leaves an interrupt to come for those that remain.
LEMMA NoLostCompletionKept ==
  ASSUME IInv, [Next]_vars, CloseBusy = FALSE
  PROVE  NoLostCompletion'
<1> USE DirsAssumption DEF IInv, TypeOK, ThreadPC, EmuPC
<1>1. CASE SerialOpen
  BY <1>1 DEF SerialOpen, Calling, mac, ThreadsOK, QuietOK, NoLostCompletion,
    Finished, OneOf, Executing
<1>2. CASE NewPtrReturns
  BY <1>2 DEF NewPtrReturns, ThreadsOK, QuietOK, NoLostCompletion, Finished,
    OneOf, Executing
<1>3. CASE KillIO
  BY <1>3 DEF KillIO, Calling, threads, mac, ThreadsOK, QuietOK,
    NoLostCompletion, Finished, OneOf, Executing
<1>4. CASE KillIOReturns
  BY <1>4 DEF KillIOReturns, threads, mac, ThreadsOK, QuietOK,
    NoLostCompletion, Finished, OneOf, Executing
<1>5. CASE SerialClose
  BY <1>5 DEF SerialClose, Calling, mac, ThreadsOK, QuietOK, NoLostCompletion,
    Finished, OneOf, Executing
<1>6. CASE JoinInput
  BY <1>6 DEF JoinInput, port, mac, ThreadsOK, QuietOK, NoLostCompletion,
    Finished, OneOf, Executing
<1>7. CASE JoinOutput
  BY <1>7 DEF JoinOutput, port, mac, ThreadsOK, QuietOK, NoLostCompletion,
    Finished, OneOf, Executing
<1>8. CASE DisposePtr
  BY <1>8 DEF DisposePtr, port, threads, ThreadsOK, QuietOK, NoLostCompletion,
    Finished, OneOf, Executing
<1>9. CASE SerialCloseReturns
  BY <1>9 DEF SerialCloseReturns, threads, ThreadsOK, QuietOK,
    NoLostCompletion, Finished, OneOf, Executing
<1>10. CASE TakeInterrupt
  BY <1>10 DEF TakeInterrupt, In68k, port, threads, mac, ThreadsOK, QuietOK,
    NoLostCompletion, Finished, OneOf, Executing
<1>11. CASE SerialInterrupt
  BY <1>11 DEF SerialInterrupt, threads, ThreadsOK, QuietOK, NoLostCompletion,
    Finished, OneOf, Executing
<1>12. ASSUME NEW d \in Dirs, SerialPrime(d) PROVE NoLostCompletion'
  BY <1>12 DEF SerialPrime, Calling, ThreadsOK, QuietOK, NoLostCompletion,
    Finished, OneOf, Executing
<1>13. ASSUME NEW d \in Dirs, SemWait(d) PROVE NoLostCompletion'
  BY <1>13 DEF SemWait, port, mac, ThreadsOK, QuietOK, NoLostCompletion,
    Finished, OneOf, Executing
<1>14. ASSUME NEW d \in Dirs, Transfer(d) PROVE NoLostCompletion'
  BY <1>14 DEF Transfer, port, mac, ThreadsOK, QuietOK, NoLostCompletion,
    Finished, OneOf, Executing
<1>15. ASSUME NEW d \in Dirs, TestKilled(d) PROVE NoLostCompletion'
  BY <1>15 DEF TestKilled, port, mac, ThreadsOK, QuietOK, NoLostCompletion,
    Finished, OneOf, Executing
<1>16. ASSUME NEW d \in Dirs, Abort(d) PROVE NoLostCompletion'
  BY <1>16 DEF Abort, ThreadsOK, QuietOK, NoLostCompletion, Finished, OneOf,
    Executing
<1>17. ASSUME NEW d \in Dirs, SetDone(d) PROVE NoLostCompletion'
  BY <1>17 DEF SetDone, mac, ThreadsOK, QuietOK, NoLostCompletion, Finished,
    OneOf, Executing
<1>18. ASSUME NEW d \in Dirs, Raise(d) PROVE NoLostCompletion'
  BY <1>18 DEF Raise, port, mac, ThreadsOK, QuietOK, NoLostCompletion,
    Finished, OneOf, Executing
<1>19. ASSUME NEW d \in Dirs, DeferredTask(d) PROVE NoLostCompletion'
  BY <1>19 DEF DeferredTask, In68k, port, threads, ThreadsOK, QuietOK,
    NoLostCompletion, Finished, OneOf, Executing
<1>20. CASE UNCHANGED vars
  BY <1>20 DEF vars, port, threads, mac, ThreadsOK, QuietOK, NoLostCompletion,
    Finished, OneOf, Executing
<1> QED
  BY <1>1, <1>2, <1>3, <1>4, <1>5, <1>6, <1>7, <1>8, <1>9, <1>10, <1>11,
    <1>12, <1>13, <1>14, <1>15, <1>16, <1>17, <1>18, <1>19, <1>20 DEF Next, Thread

\* The port closed and no thread started.
LEMMA InitKept == Init => IInv
<1> SUFFICES ASSUME Init PROVE IInv
  OBVIOUS
<1> USE DirsAssumption DEF Init
<1>1. TypeOK
  <2>1. pending \in [Dirs -> BOOLEAN] /\ done \in [Dirs -> BOOLEAN] /\ issued \in [Dirs -> BOOLEAN]
    BY Zenon
  <2>2. signal \in [Dirs -> 0 .. 2] /\ tpc \in [Dirs -> ThreadPC]
    BY DEF ThreadPC
  <2> QED
    BY <2>1, <2>2 DEF TypeOK, EmuPC
<1>2. PhaseOK /\ ThreadsOK
  BY DEF PhaseOK, ThreadsOK
<1>3. QuietOK /\ NoLostCompletion
  BY DEF QuietOK, NoLostCompletion, Finished, OneOf, Executing
<1> QED
  BY <1>1, <1>2, <1>3 DEF IInv

\* The inductive invariant of the port.
THEOREM Invariance ==
  ASSUME CloseBusy = FALSE
  PROVE  Spec => []IInv
<1>1. IInv /\ [Next]_vars => IInv'
  BY TypeOKKept, PhaseOKKept, ThreadsOKKept, QuietOKKept, NoLostCompletionKept DEF IInv
<1> QED
  BY InitKept, <1>1, PTL DEF Spec

\* Type correctness: in particular no semaphore of an I/O thread ever counts
\* more than a command and the request to quit (prime_in(), close()).
THEOREM TypeCorrect ==
  ASSUME CloseBusy = FALSE
  PROVE  Spec => []TypeOK
<1>1. IInv => TypeOK
  BY DEF IInv
<1> QED
  BY Invariance, <1>1, PTL

\* A request is in one place, and a finished one is reported, once
\* (SerialPrime(), input_func(), SerialInterrupt()).
THEOREM RequestsSafe ==
  ASSUME CloseBusy = FALSE
  PROVE  Spec => [](RequestTracked /\ NoLostCompletion /\ PostedOnce /\ OneCompletion)
<1>1. ASSUME IInv PROVE RequestTracked /\ NoLostCompletion
  BY <1>1 DEF IInv, QuietOK, RequestTracked
<1>2. ASSUME IInv PROVE PostedOnce /\ OneCompletion
  BY <1>2 DEF IInv, QuietOK, PostedOnce, OneCompletion, Finished
<1> QED
  BY Invariance, <1>1, <1>2, PTL

-----------------------------------------------------------------------------
(* The port implements the request protocol *)

\* What request[d] is, in each of the four cases.
LEMMA RequestValue ==
  ASSUME NEW d \in Dirs
  PROVE  /\ d \in queued => request[d] = "posted"
         /\ d \notin queued /\ pending[d] /\ done[d] => request[d] = "finished"
         /\ d \notin queued /\ pending[d] /\ ~done[d] => request[d] = "running"
         /\ d \notin queued /\ ~pending[d] => request[d] = "idle"
  BY DEF request

\* The same of the next state.
LEMMA RequestValueNext ==
  ASSUME NEW d \in Dirs
  PROVE  /\ d \in queued' => request'[d] = "posted"
         /\ d \notin queued' /\ pending'[d] /\ done'[d] => request'[d] = "finished"
         /\ d \notin queued' /\ pending'[d] /\ ~done'[d] => request'[d] = "running"
         /\ d \notin queued' /\ ~pending'[d] => request'[d] = "idle"
  BY DEF request

\* A step that leaves the flags and the queue alone is a stutter.
LEMMA RequestSame ==
  ASSUME UNCHANGED << pending, done, queued >>
  PROVE  UNCHANGED request
  BY DEF request

\* Initially no request is being executed.
LEMMA RequestInit == Init => Requests!Init
<1> SUFFICES ASSUME Init PROVE Requests!Init
  OBVIOUS
<1>1. \A d \in Dirs : request[d] = "idle"
  BY RequestValue DEF Init
<1> QED
  BY <1>1 DEF Requests!Init, request

\* Every step of the port is a step of the protocol or leaves the requests
\* alone; only five actions do not.
LEMMA RequestStep ==
  ASSUME IInv, IInv', [Next]_vars
  PROVE  [Requests!Next]_request
<1> USE DirsAssumption DEF IInv
<1> DEFINE Moves == SerialOpen \/ SerialInterrupt
             \/ \E d \in Dirs : SerialPrime(d) \/ Abort(d) \/ SetDone(d) \/ DeferredTask(d)
<1>1. CASE ~Moves
  <2>1. UNCHANGED << pending, done, queued >>
    BY <1>1 DEF Next, Thread, NewPtrReturns, KillIO, KillIOReturns, SerialClose, JoinInput,
      JoinOutput, DisposePtr, SerialCloseReturns, TakeInterrupt, SemWait, Transfer,
      TestKilled, Raise, vars, port, threads, mac
  <2> QED
    BY <2>1, RequestSame
<1>2. CASE SerialOpen
  <2>1. \A d \in Dirs : pending[d] = FALSE /\ done[d] = FALSE
    BY <1>2 DEF SerialOpen, TypeOK, QuietOK
  <2>2. \A d \in Dirs : pending'[d] = FALSE /\ done'[d] = FALSE
    BY <1>2 DEF SerialOpen
  <2>3. UNCHANGED queued
    BY <1>2 DEF SerialOpen, mac
  <2>4. \A d \in Dirs : request'[d] = request[d]
    BY <2>1, <2>2, <2>3, RequestValue, RequestValueNext
  <2> QED
    BY <2>4 DEF request
<1>3. CASE SerialInterrupt
  <2>1. \A d \in Dirs : (d \in Finished) <=> (request[d] = "finished")
    BY <1>3, RequestValue DEF Finished, QuietOK
  <2>2. \A d \in Finished : request'[d] = "posted"
    BY <1>3, RequestValueNext DEF SerialInterrupt, Finished
  <2>3. \A d \in Dirs : d \notin Finished => request'[d] = request[d]
    BY <1>3, RequestValue, RequestValueNext DEF SerialInterrupt
  <2>4. CASE Finished = {}
    BY <2>3, <2>4 DEF request
  <2>5. CASE Finished # {}
    <3>1. \E d \in Dirs : request[d] = "finished"
      BY <2>1, <2>5 DEF Finished
    <3>2. request' = [d \in Dirs |-> IF request[d] = "finished" THEN "posted" ELSE request[d]]
      BY <2>1, <2>2, <2>3 DEF request
    <3> QED
      BY <3>1, <3>2 DEF Requests!Next, Requests!Post
  <2> QED
    BY <2>4, <2>5
<1>4. ASSUME NEW d \in Dirs, SerialPrime(d) PROVE [Requests!Next]_request
  <2>1. request[d] = "idle"
    BY <1>4, RequestValue DEF SerialPrime, QuietOK
  <2>2. request'[d] = "running"
    BY <1>4, RequestValueNext DEF SerialPrime, QuietOK, TypeOK
  <2>3. \A e \in Dirs : e # d => request'[e] = request[e]
    BY <1>4, RequestValue, RequestValueNext DEF SerialPrime, TypeOK
  <2>4. Requests!Start(d)
    BY <2>1, <2>2, <2>3 DEF Requests!Start, request
  <2> QED
    BY <2>4 DEF Requests!Next
<1>5. ASSUME NEW d \in Dirs, Abort(d) PROVE [Requests!Next]_request
  <2>1. request[d] = "running"
    BY <1>5, RequestValue DEF Abort, QuietOK, Executing
  <2>2. request'[d] = "idle"
    BY <1>5, RequestValueNext DEF Abort, QuietOK, Executing, TypeOK
  <2>3. \A e \in Dirs : e # d => request'[e] = request[e]
    BY <1>5, RequestValue, RequestValueNext DEF Abort, TypeOK
  <2>4. Requests!Abort(d)
    BY <2>1, <2>2, <2>3 DEF Requests!Abort, request
  <2> QED
    BY <2>4 DEF Requests!Next
<1>6. ASSUME NEW d \in Dirs, SetDone(d) PROVE [Requests!Next]_request
  <2>1. request[d] = "running"
    BY <1>6, RequestValue DEF SetDone, QuietOK, Executing
  <2>2. request'[d] = "finished"
    BY <1>6, RequestValueNext DEF SetDone, QuietOK, Executing, TypeOK, mac
  <2>3. \A e \in Dirs : e # d => request'[e] = request[e]
    BY <1>6, RequestValue, RequestValueNext DEF SetDone, TypeOK, mac
  <2>4. Requests!Finish(d)
    BY <2>1, <2>2, <2>3 DEF Requests!Finish, request
  <2> QED
    BY <2>4 DEF Requests!Next
<1>7. ASSUME NEW d \in Dirs, DeferredTask(d) PROVE [Requests!Next]_request
  <2>1. request[d] = "posted"
    BY <1>7, RequestValue DEF DeferredTask
  <2>2. request'[d] = "idle"
    BY <1>7, RequestValueNext DEF DeferredTask, QuietOK, port
  <2>3. \A e \in Dirs : e # d => request'[e] = request[e]
    BY <1>7, RequestValue, RequestValueNext DEF DeferredTask, port
  <2>4. Requests!Complete(d)
    BY <2>1, <2>2, <2>3 DEF Requests!Complete, request
  <2> QED
    BY <2>4 DEF Requests!Next
<1> QED
  BY <1>1, <1>2, <1>3, <1>4, <1>5, <1>6, <1>7

\* The driver implements the request protocol of TECH 6.11: whatever the
\* threads, KillIO and the interrupts do, each request takes its steps in order.
THEOREM Refinement ==
  ASSUME CloseBusy = FALSE
  PROVE  Spec => RequestProtocol
<1>1. IInv /\ IInv' /\ [Next]_vars => [Requests!Next]_request
  BY RequestStep
<1> QED
  BY Invariance, RequestInit, <1>1, PTL DEF Spec, RequestProtocol, Requests!Spec
=============================================================================
