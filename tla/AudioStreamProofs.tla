------------------------- MODULE AudioStreamProofs --------------------------
(***************************************************************************)
(* Proofs about AudioStream, for every bound on opens and sources and      *)
(* with restarts of MacOS.  IInv is inductive: one lemma per conjunct says *)
(* that every step keeps it.                                               *)
(***************************************************************************)
EXTENDS AudioStream, TLAPS

\* Every step keeps the types.
LEMMA TypeOKKept ==
  ASSUME IInv, [Next]_vars
  PROVE  TypeOK'
<1> USE MaxOpenAssumption, MaxSourcesAssumption
    DEF IInv, TypeOK, DataArea, StreamPC, EmuPC
<1>1. CASE Open
  BY <1>1 DEF Open, Calling, stream
<1>2. CASE NewPtrReturns
  <2>1. open_count' \in 0 .. MaxOpen
    BY <1>2 DEF NewPtrReturns, EmulatorOK
  <2>2. streamInfo' \in BOOLEAN
    BY <1>2, Zenon DEF NewPtrReturns
  <2> QED
    BY <1>2, <2>1, <2>2 DEF NewPtrReturns, stream
<1>3. CASE Close
  BY <1>3 DEF Close, Calling, Opened, stream
<1>4. CASE CloseMixerReturns
  BY <1>4 DEF CloseMixerReturns, stream
<1>5. CASE DisposePtr
  BY <1>5 DEF DisposePtr, stream
<1>6. CASE DisposeReturns
  BY <1>6 DEF DisposeReturns, stream
<1>7. CASE InitOutputDevice
  BY <1>7 DEF InitOutputDevice, Calling, Opened, component, stream
<1>8. CASE OpenMixerReturns
  BY <1>8 DEF OpenMixerReturns, stream
<1>9. CASE AddSource
  <2>1. num_sources' \in 0 .. MaxSources
    BY <1>9 DEF AddSource
  <2> QED
    BY <1>9, <2>1 DEF AddSource, stream
<1>10. CASE RemoveSource
  <2>1. num_sources' \in 0 .. MaxSources
    BY <1>10 DEF RemoveSource
  <2> QED
    BY <1>10, <2>1 DEF RemoveSource, stream
<1>11. CASE SetFormat
  BY <1>11 DEF SetFormat, Calling, component
<1>12. CASE Join
  BY <1>12 DEF Join, component
<1>13. CASE OpenAudio
  <2>1. audio_open' \in BOOLEAN /\ active' \in BOOLEAN
    BY <1>13, Zenon DEF OpenAudio
  <2>2. tpc' = "top" \/ tpc' = tpc
    BY <1>13 DEF OpenAudio
  <2> QED
    BY <1>13, <2>1, <2>2 DEF OpenAudio, component
<1>14. CASE AudioReset
  BY <1>14 DEF AudioReset, Calling, stream
<1>15. CASE TakeInterrupt
  <2>1. flag' \in BOOLEAN /\ irq' = "enter"
    BY <1>15, Zenon DEF TakeInterrupt
  <2>2. UNCHANGED << component, streamInfo, audio_open, stream, sem, pc >>
    BY <1>15 DEF TakeInterrupt
  <2> QED
    BY <2>1, <2>2 DEF component, stream
<1>16. CASE AudioInterrupt
  <2>1. sem' \in 0 .. 1
    BY <1>16 DEF AudioInterrupt, StreamOK
  <2>2. streamInfo' \in BOOLEAN /\ irq' \in {"none", "fetch", "lost"}
    BY <1>16, Zenon DEF AudioInterrupt, GetSourceData
  <2> QED
    BY <1>16, <2>1, <2>2 DEF AudioInterrupt, component, stream
<1>17. CASE SourceDataReturns
  <2>1. sem = 0
    BY <1>17 DEF SourceDataReturns, StreamOK
  <2> QED
    BY <1>17, <2>1 DEF SourceDataReturns, component, stream
<1>24. CASE LowMemoryReturns
  <2>1. sem = 0
    BY <1>24 DEF LowMemoryReturns, StreamOK
  <2> QED
    BY <1>24, <2>1 DEF LowMemoryReturns, component, stream
<1>18. CASE Top
  BY <1>18 DEF Top, component
<1>19. CASE Raise
  BY <1>19 DEF Raise, component
<1>20. CASE SemWait
  BY <1>20 DEF SemWait, component
<1>21. CASE ReadInfo
  BY <1>21 DEF ReadInfo, component
<1>22. CASE Write
  BY <1>22 DEF Write, component
<1>23. CASE UNCHANGED vars
  BY <1>23 DEF vars, component, stream
<1> QED
  BY <1>1, <1>2, <1>3, <1>4, <1>5, <1>6, <1>7, <1>8, <1>9, <1>10, <1>11, <1>12,
    <1>13, <1>14, <1>15, <1>16, <1>17, <1>18, <1>19, <1>20, <1>21, <1>22,
    <1>23, <1>24 DEF Next, Dispatching, Interrupting, Streaming

\* Every step keeps the data area where the component and the mixer need it.
LEMMA EmulatorOKKept ==
  ASSUME IInv, [Next]_vars
  PROVE  EmulatorOK'
<1> USE MaxOpenAssumption, MaxSourcesAssumption
    DEF IInv, TypeOK, DataArea, StreamPC, EmuPC
<1>1. CASE Open
  BY <1>1 DEF Open, Calling, stream, EmulatorOK
<1>2. CASE NewPtrReturns
  BY <1>2 DEF NewPtrReturns, stream, EmulatorOK
<1>3. CASE Close
  BY <1>3 DEF Close, Calling, Opened, stream, EmulatorOK
<1>4. CASE CloseMixerReturns
  BY <1>4 DEF CloseMixerReturns, stream, EmulatorOK
<1>5. CASE DisposePtr
  BY <1>5 DEF DisposePtr, stream, EmulatorOK
<1>6. CASE DisposeReturns
  BY <1>6 DEF DisposeReturns, stream, EmulatorOK
<1>7. CASE InitOutputDevice
  BY <1>7 DEF InitOutputDevice, Calling, Opened, component, stream, EmulatorOK
<1>8. CASE OpenMixerReturns
  BY <1>8 DEF OpenMixerReturns, stream, EmulatorOK
<1>9. CASE AddSource
  BY <1>9 DEF AddSource, Calling, Opened, stream, EmulatorOK
<1>10. CASE RemoveSource
  BY <1>10 DEF RemoveSource, Calling, Opened, stream, EmulatorOK
<1>11. CASE SetFormat
  BY <1>11 DEF SetFormat, Calling, component, EmulatorOK
<1>12. CASE Join
  BY <1>12 DEF Join, component, EmulatorOK
<1>13. CASE OpenAudio
  BY <1>13 DEF OpenAudio, component, EmulatorOK
<1>14. CASE AudioReset
  BY <1>14 DEF AudioReset, Calling, stream, EmulatorOK
<1>15. CASE TakeInterrupt
  BY <1>15 DEF TakeInterrupt, component, stream, EmulatorOK
<1>16. CASE AudioInterrupt
  BY <1>16 DEF AudioInterrupt, GetSourceData, component, stream, EmulatorOK
<1>17. CASE SourceDataReturns
  BY <1>17 DEF SourceDataReturns, component, stream, EmulatorOK
<1>24. CASE LowMemoryReturns
  BY <1>24 DEF LowMemoryReturns, component, stream, EmulatorOK
<1>18. CASE Top
  BY <1>18 DEF Top, component, EmulatorOK
<1>19. CASE Raise
  BY <1>19 DEF Raise, component, EmulatorOK
<1>20. CASE SemWait
  BY <1>20 DEF SemWait, component, EmulatorOK
<1>21. CASE ReadInfo
  BY <1>21 DEF ReadInfo, component, EmulatorOK
<1>22. CASE Write
  BY <1>22 DEF Write, component, EmulatorOK
<1>23. CASE UNCHANGED vars
  BY <1>23 DEF vars, component, stream, EmulatorOK
<1> QED
  BY <1>1, <1>2, <1>3, <1>4, <1>5, <1>6, <1>7, <1>8, <1>9, <1>10, <1>11, <1>12,
    <1>13, <1>14, <1>15, <1>16, <1>17, <1>18, <1>19, <1>20, <1>21, <1>22,
    <1>23, <1>24 DEF Next, Dispatching, Interrupting, Streaming

\* Every step keeps the account of the request for the next block.
LEMMA StreamOKKept ==
  ASSUME IInv, [Next]_vars
  PROVE  StreamOK'
<1> USE MaxOpenAssumption, MaxSourcesAssumption
    DEF IInv, TypeOK, DataArea, StreamPC, EmuPC
<1>1. CASE Open
  BY <1>1 DEF Open, Calling, stream, EmulatorOK, StreamOK
<1>2. CASE NewPtrReturns
  BY <1>2 DEF NewPtrReturns, stream, EmulatorOK, StreamOK
<1>3. CASE Close
  BY <1>3 DEF Close, Calling, Opened, stream, EmulatorOK, StreamOK
<1>4. CASE CloseMixerReturns
  BY <1>4 DEF CloseMixerReturns, stream, EmulatorOK, StreamOK
<1>5. CASE DisposePtr
  BY <1>5 DEF DisposePtr, stream, EmulatorOK, StreamOK
<1>6. CASE DisposeReturns
  BY <1>6 DEF DisposeReturns, stream, EmulatorOK, StreamOK
<1>7. CASE InitOutputDevice
  BY <1>7 DEF InitOutputDevice, Calling, Opened, component, stream, EmulatorOK,
    StreamOK
<1>8. CASE OpenMixerReturns
  BY <1>8 DEF OpenMixerReturns, stream, EmulatorOK, StreamOK
<1>9. CASE AddSource
  BY <1>9 DEF AddSource, Calling, Opened, stream, EmulatorOK, StreamOK
<1>10. CASE RemoveSource
  BY <1>10 DEF RemoveSource, Calling, Opened, stream, EmulatorOK, StreamOK
<1>11. CASE SetFormat
  BY <1>11 DEF SetFormat, Calling, component, EmulatorOK, StreamOK
<1>12. CASE Join
  BY <1>12 DEF Join, component, EmulatorOK, StreamOK
<1>13. CASE OpenAudio
  BY <1>13 DEF OpenAudio, component, EmulatorOK, StreamOK
<1>14. CASE AudioReset
  BY <1>14 DEF AudioReset, Calling, stream, EmulatorOK, StreamOK
<1>15. CASE TakeInterrupt
  BY <1>15 DEF TakeInterrupt, component, stream, EmulatorOK, StreamOK
<1>16. CASE AudioInterrupt
  BY <1>16 DEF AudioInterrupt, GetSourceData, component, stream, EmulatorOK, StreamOK
<1>17. CASE SourceDataReturns
  BY <1>17 DEF SourceDataReturns, component, stream, EmulatorOK, StreamOK
<1>24. CASE LowMemoryReturns
  BY <1>24 DEF LowMemoryReturns, component, stream, EmulatorOK, StreamOK
<1>18. CASE Top
  BY <1>18 DEF Top, component, EmulatorOK, StreamOK
<1>19. CASE Raise
  BY <1>19 DEF Raise, component, EmulatorOK, StreamOK
<1>20. CASE SemWait
  BY <1>20 DEF SemWait, component, EmulatorOK, StreamOK
<1>21. CASE ReadInfo
  BY <1>21 DEF ReadInfo, component, EmulatorOK, StreamOK
<1>22. CASE Write
  BY <1>22 DEF Write, component, EmulatorOK, StreamOK
<1>23. CASE UNCHANGED vars
  BY <1>23 DEF vars, component, stream, EmulatorOK, StreamOK
<1> QED
  BY <1>1, <1>2, <1>3, <1>4, <1>5, <1>6, <1>7, <1>8, <1>9, <1>10, <1>11, <1>12,
    <1>13, <1>14, <1>15, <1>16, <1>17, <1>18, <1>19, <1>20, <1>21, <1>22,
    <1>23, <1>24 DEF Next, Dispatching, Interrupting, Streaming

LEMMA InitKept == Init => IInv
<1> SUFFICES ASSUME Init PROVE IInv
  OBVIOUS
<1> USE MaxOpenAssumption, MaxSourcesAssumption DEF Init
<1>1. TypeOK
  <2>1. {mixer, audio_open, streamInfo, active, cancel, flag} \subseteq BOOLEAN
    BY Zenon
  <2>2. num_sources \in 0 .. MaxSources /\ open_count \in 0 .. MaxOpen /\ sem \in 0 .. 1
    OBVIOUS
  <2>3. audio_data \in DataArea /\ tpc \in StreamPC /\ pc \in EmuPC /\ irq = "none"
    BY DEF DataArea, StreamPC, EmuPC
  <2> QED
    BY <2>1, <2>2, <2>3 DEF TypeOK
<1>2. EmulatorOK
  BY DEF EmulatorOK
<1>3. StreamOK
  BY DEF StreamOK
<1> QED
  BY <1>1, <1>2, <1>3 DEF IInv

\* The inductive invariant of sound output.
THEOREM Invariance == Spec => []IInv
<1>1. IInv /\ [Next]_vars => IInv'
  BY TypeOKKept, EmulatorOKKept, StreamOKKept DEF IInv
<1> QED
  BY InitKept, <1>1, PTL DEF Spec

\* Type correctness: audio_irq_done_sem never counts two blocks, not even when
\* close_audio() cancels a thread that is waiting for it.
THEOREM TypeCorrect == Spec => []TypeOK
<1>1. IInv => TypeOK
  BY DEF IInv
<1> QED
  BY Invariance, <1>1, PTL

\* The request the streaming thread waits for is neither lost nor doubled on its
\* way through AudioInterrupt(), which never replaces the block that is playing.
THEOREM BlockExchange == Spec => [](Handshake /\ ExclusiveBlock)
<1>1. ASSUME IInv PROVE Handshake
  BY <1>1 DEF IInv, TypeOK, StreamOK, EmulatorOK, Handshake
<1>2. ASSUME IInv PROVE ExclusiveBlock
  BY <1>2 DEF IInv, TypeOK, StreamOK, EmulatorOK, ExclusiveBlock
<1> QED
  BY Invariance, <1>1, <1>2, PTL

\* The component's data area is disposed only when nobody has it open, however
\* opens, closes and restarts are nested (AudioDispatch()).
THEOREM DataKept == Spec => DisposedUnused
<1>1. ASSUME IInv, [Next]_vars
      PROVE  audio_data = "live" /\ audio_data' = "freed" => open_count = 0 /\ ~mixer
  <2> SUFFICES ASSUME audio_data = "live", audio_data' = "freed"
               PROVE  DisposePtr
    BY <1>1 DEF IInv, EmulatorOK, DisposePtr
  <2> QED
    BY <1>1 DEF Next, Dispatching, Interrupting, Streaming, Open, NewPtrReturns, Close,
      CloseMixerReturns, DisposeReturns, InitOutputDevice, OpenMixerReturns, AddSource,
      RemoveSource, SetFormat, Join, OpenAudio, AudioReset, TakeInterrupt, AudioInterrupt,
      SourceDataReturns, LowMemoryReturns, Top, Raise, SemWait, ReadInfo, Write, vars, component
<1> QED
  BY Invariance, <1>1, PTL DEF Spec, DisposedUnused
=============================================================================
