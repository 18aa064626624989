--------------------------- MODULE SrdReplayProofs ---------------------------
(***************************************************************************)
(* Replay loses no annotation and is not disturbed by the loader's         *)
(* retries, and the rows it sends are the waveform of what was fed, for    *)
(* any number of channels, any sample scale and chunk size, and whatever   *)
(* the library raises or refuses.                                          *)
(***************************************************************************)
EXTENDS SrdReplay, SequenceTheorems, WellFoundedInduction, TLAPS

(* A list of annotations on the femtosecond axis.                          *)
Events(list) == [i \in DOMAIN list |-> Event(list[i])]

(* What has left and what waits is what was raised.                        *)
DrainInv ==
  /\ raised \in Seq(RawAnnotation)
  /\ accum \in Seq(RawAnnotation)
  /\ returned \in Seq(AnnotationEvent)
  /\ returned \o Events(accum) = Events(raised)

(* The transition last fed has left its mark on the session.               *)
FedInv ==
  /\ trace \in Seq(Transition)
  /\ curSample \in Nat
  /\ started => /\ trace # <<>>
                /\ SampleOf(trace[Len(trace)].fs) <= curSample
                /\ ApplyChanges(levels, trace[Len(trace)].set) = levels

IInv == DrainInv /\ FedInv

-----------------------------------------------------------------------------
(* Rescaling keeps the order of two samples, and saturation does.          *)
LEMMA FsOfMonotone ==
  ASSUME NEW m \in Nat, NEW n \in Nat
  PROVE  /\ FsOf(m) \in 0..LastFs
         /\ m <= n => FsOf(m) <= FsOf(n)
  <1>1. \A x, y, f \in Nat : x * f \in Nat /\ (x + y) * f = x * f + y * f
    OBVIOUS
  <1>2. FsPerSample \in Nat /\ LastFs \in Nat
    BY ScaleAssumption, TimeAssumption
  <1>3. m * FsPerSample \in Nat /\ n * FsPerSample \in Nat
    BY <1>1, <1>2
  <1>4. m <= n => m * FsPerSample <= n * FsPerSample
    <2> SUFFICES ASSUME m <= n PROVE m * FsPerSample <= n * FsPerSample
      OBVIOUS
    <2>1. n - m \in Nat /\ m + (n - m) = n
      OBVIOUS
    <2>2. /\ (m + (n - m)) * FsPerSample = m * FsPerSample + (n - m) * FsPerSample
          /\ (n - m) * FsPerSample \in Nat
      BY <1>1, <1>2, <2>1
    <2>3. \A a, b, c \in Nat : b = a + c => a <= b
      OBVIOUS
    <2>4. QED
      BY <1>3, <2>1, <2>2, <2>3
  <1>5. \A a, b \in Nat :
          LET A == IF a < LastFs THEN a ELSE LastFs
              B == IF b < LastFs THEN b ELSE LastFs
          IN A \in 0..LastFs /\ (a <= b => A <= B)
    BY <1>2
  <1>6. QED
    BY <1>3, <1>4, <1>5 DEF FsOf

(* A list of annotations, rescaled, is a list of events of that length.    *)
LEMMA EventsType ==
  ASSUME NEW list \in Seq(RawAnnotation)
  PROVE  /\ Events(list) \in Seq(AnnotationEvent) /\ Len(Events(list)) = Len(list)
         /\ \A i \in 1..Len(list) : Events(list)[i] = Event(list[i])
  <1>1. \A i \in 1..Len(list) : Event(list[i]) \in AnnotationEvent
    <2>1. \A i \in 1..Len(list) : list[i] \in RawAnnotation
      BY ElementOfSeq
    <2>2. QED
      BY <2>1, FsOfMonotone DEF Event, RawAnnotation, AnnotationEvent
  <1>2. DOMAIN list = 1..Len(list) /\ Len(list) \in Nat
    OBVIOUS
  <1>3. QED
    BY <1>1, <1>2 DEF Events

(* Rescaling two lists is rescaling each.                                  *)
LEMMA EventsConcat ==
  ASSUME NEW s \in Seq(RawAnnotation), NEW t \in Seq(RawAnnotation)
  PROVE  Events(s \o t) = Events(s) \o Events(t)
  <1> DEFINE n == Len(s) + Len(t)
  <1>1. /\ s \o t \in Seq(RawAnnotation) /\ Len(s \o t) = n
        /\ Len(s) \in Nat /\ Len(t) \in Nat
        /\ \A i \in 1..n : (s \o t)[i] = IF i <= Len(s) THEN s[i] ELSE t[i - Len(s)]
    BY ConcatProperties, LenProperties
  <1>2. /\ Events(s \o t) \in Seq(AnnotationEvent) /\ Len(Events(s \o t)) = n
        /\ \A i \in 1..n : Events(s \o t)[i] = Event((s \o t)[i])
    BY <1>1, EventsType
  <1>3. /\ Events(s) \in Seq(AnnotationEvent) /\ Len(Events(s)) = Len(s)
        /\ Events(t) \in Seq(AnnotationEvent) /\ Len(Events(t)) = Len(t)
        /\ \A i \in 1..Len(s) : Events(s)[i] = Event(s[i])
        /\ \A i \in 1..Len(t) : Events(t)[i] = Event(t[i])
    BY EventsType
  <1>4. /\ Events(s) \o Events(t) \in Seq(AnnotationEvent)
        /\ Len(Events(s) \o Events(t)) = n
        /\ \A i \in 1..n : (Events(s) \o Events(t))[i] =
             IF i <= Len(s) THEN Events(s)[i] ELSE Events(t)[i - Len(s)]
    <2>1. \A x, y \in Seq(AnnotationEvent) :
            /\ x \o y \in Seq(AnnotationEvent)
            /\ Len(x \o y) = Len(x) + Len(y)
            /\ \A i \in 1..(Len(x) + Len(y)) :
                 (x \o y)[i] = IF i <= Len(x) THEN x[i] ELSE y[i - Len(x)]
      BY ConcatProperties
    <2>2. Events(s) \in Seq(AnnotationEvent) /\ Events(t) \in Seq(AnnotationEvent)
      BY <1>3
    <2>3. /\ Events(s) \o Events(t) \in Seq(AnnotationEvent)
          /\ Len(Events(s) \o Events(t)) = Len(Events(s)) + Len(Events(t))
          /\ \A i \in 1..(Len(Events(s)) + Len(Events(t))) :
               (Events(s) \o Events(t))[i] =
                 IF i <= Len(Events(s)) THEN Events(s)[i]
                 ELSE Events(t)[i - Len(Events(s))]
      BY <2>1, <2>2
    <2>4. QED
      BY <1>3, <2>3
  <1>5. ASSUME NEW i \in 1..n
        PROVE  Events(s \o t)[i] = (Events(s) \o Events(t))[i]
    <2>1. CASE i <= Len(s)
      BY <1>1, <1>2, <1>3, <1>4, <2>1
    <2>2. CASE ~(i <= Len(s))
      <3>1. i - Len(s) \in 1..Len(t)
        BY <1>1, <2>2
      <3>2. QED
        BY <1>1, <1>2, <1>3, <1>4, <2>2, <3>1
    <2>3. QED
      BY <2>1, <2>2
  <1>6. QED
    BY <1>2, <1>4, <1>5, SeqEqual

(* Lists of events may be bracketed another way.                           *)
LEMMA EventsAssociative ==
  \A x, y, z \in Seq(AnnotationEvent) : (x \o y) \o z = x \o (y \o z)
  BY ConcatAssociative

(* What a call drains, and what the callback accumulates, moves from one   *)
(* side of the balance to the other.                                       *)
LEMMA DrainKeeps ==
  ASSUME NEW more \in Seq(RawAnnotation), DrainInv,
         raised' = raised \o more, DrainInto(accum \o more)
  PROVE  DrainInv'
  <1>1. /\ accum \o more \in Seq(RawAnnotation) /\ raised \o more \in Seq(RawAnnotation)
        /\ Events(accum) \in Seq(AnnotationEvent) /\ Events(more) \in Seq(AnnotationEvent)
        /\ Events(accum \o more) \in Seq(AnnotationEvent)
    BY ConcatProperties, EventsType DEF DrainInv
  <1>2. returned' = returned \o Events(accum \o more) /\ accum' = <<>>
    BY DEF DrainInto, Events
  <1>3. Events(<<>>) = <<>>
    BY DEF Events
  <1>4. returned' = (returned \o Events(accum)) \o Events(more)
    <2>1. Events(accum \o more) = Events(accum) \o Events(more)
      BY EventsConcat DEF DrainInv
    <2>2. /\ returned \in Seq(AnnotationEvent)
          /\ Events(accum) \in Seq(AnnotationEvent)
          /\ Events(more) \in Seq(AnnotationEvent)
      BY <1>1 DEF DrainInv
    <2>3. returned \o (Events(accum) \o Events(more))
            = (returned \o Events(accum)) \o Events(more)
      BY <2>2, EventsAssociative
    <2>4. QED
      BY <1>2, <2>1, <2>3
  <1>5. returned' = Events(raised')
    BY <1>4, EventsConcat DEF DrainInv
  <1>6. returned' \in Seq(AnnotationEvent)
    BY <1>1, <1>2, ConcatProperties DEF DrainInv
  <1>7. returned' \o <<>> = returned'
    BY <1>6, ConcatEmptySeq
  <1>8. QED
    BY <1>1, <1>2, <1>3, <1>5, <1>6, <1>7, EmptySeq DEF DrainInv, Events, Event, FsOf

(* What is raised in a call that fails waits.                              *)
LEMMA AccumulateKeeps ==
  ASSUME NEW more \in Seq(RawAnnotation), DrainInv,
         raised' = raised \o more, accum' = accum \o more, returned' = returned
  PROVE  DrainInv'
  <1>1. /\ accum' \in Seq(RawAnnotation) /\ raised' \in Seq(RawAnnotation)
        /\ Events(accum) \in Seq(AnnotationEvent) /\ Events(more) \in Seq(AnnotationEvent)
    BY ConcatProperties, EventsType DEF DrainInv
  <1>2. Events(accum') = Events(accum) \o Events(more)
    BY EventsConcat DEF DrainInv
  <1>3. returned \o Events(accum') = (returned \o Events(accum)) \o Events(more)
    <2>1. /\ returned \in Seq(AnnotationEvent)
          /\ Events(accum) \in Seq(AnnotationEvent)
          /\ Events(more) \in Seq(AnnotationEvent)
      BY <1>1 DEF DrainInv
    <2>2. returned \o (Events(accum) \o Events(more))
            = (returned \o Events(accum)) \o Events(more)
      BY <2>1, EventsAssociative
    <2>3. QED
      BY <1>2, <2>2
  <1>4. returned \o Events(accum') = Events(raised')
    BY <1>3, EventsConcat DEF DrainInv
  <1>5. QED
    BY <1>1, <1>4 DEF DrainInv, Events, Event, FsOf

(* What the callback adds while the library works.                         *)
LEMMA RaiseFacts ==
  ASSUME NEW upTo, DrainInv, Raise(upTo)
  PROVE  \E more \in Seq(RawAnnotation) :
           raised' = raised \o more /\ Accumulated = accum \o more
  <1>1. CASE raised' = raised
    <2>1. SubSeq(raised, Len(raised) + 1, Len(raised)) = <<>>
      BY SubSeqEmpty, LenProperties DEF DrainInv
    <2>2. raised \o <<>> = raised /\ <<>> \in Seq(RawAnnotation)
      BY ConcatEmptySeq, EmptySeq DEF DrainInv
    <2>3. QED
      BY <1>1, <2>1, <2>2 DEF Accumulated
  <1>2. CASE \E s, e \in 0..upTo :
               s <= e /\ raised' = Append(raised, [start |-> s, end |-> e])
    <2>1. PICK a \in RawAnnotation : raised' = Append(raised, a)
      BY <1>2 DEF RawAnnotation
    <2>2. raised \in Seq(RawAnnotation) /\ Len(raised) \in Nat
      BY LenProperties DEF DrainInv
    <2>3. raised' = raised \o <<a>> /\ <<a>> \in Seq(RawAnnotation)
      BY <2>1, <2>2
    <2>4. SubSeq(raised', Len(raised) + 1, Len(raised')) = <<a>>
      <3> DEFINE m == Len(raised) + 1
      <3>1. /\ raised' \in Seq(RawAnnotation) /\ Len(raised') = m
            /\ raised'[m] = a /\ m \in 1..Len(raised')
        BY <2>1, <2>2
      <3>2. SubSeq(raised', m, m) = <<raised'[m]>> \o SubSeq(raised', m + 1, m)
        BY <3>1, SubSeqRecursiveFirst
      <3>3. SubSeq(raised', m + 1, m) = <<>> /\ <<a>> \in Seq(RawAnnotation)
        BY <2>2, SubSeqEmpty
      <3>4. <<a>> \o <<>> = <<a>>
        BY <3>3, ConcatEmptySeq
      <3>5. QED
        BY <3>1, <3>2, <3>3, <3>4
    <2>5. QED
      BY <2>3, <2>4 DEF Accumulated
  <1>3. QED
    BY <1>1, <1>2 DEF Raise

(* A call that raises nothing drains what waits.                           *)
LEMMA DrainOnlyKeeps ==
  ASSUME DrainInv, UNCHANGED raised, DrainInto(accum)
  PROVE  DrainInv'
  <1>1. raised \o <<>> = raised /\ accum \o <<>> = accum /\ <<>> \in Seq(RawAnnotation)
    BY ConcatEmptySeq, EmptySeq DEF DrainInv
  <1>2. raised' = raised \o <<>> /\ DrainInto(accum \o <<>>)
    BY <1>1
  <1>3. QED
    BY <1>1, <1>2, DrainKeeps

(* One that does drains that too.                                          *)
LEMMA RaiseAndDrainKeeps ==
  ASSUME NEW upTo, DrainInv, Raise(upTo), DrainInto(Accumulated)
  PROVE  DrainInv'
  <1>1. PICK more \in Seq(RawAnnotation) :
          raised' = raised \o more /\ Accumulated = accum \o more
    BY RaiseFacts
  <1>2. DrainInto(accum \o more)
    BY <1>1
  <1>3. QED
    BY <1>1, <1>2, DrainKeeps

(* A refused chunk leaves what was raised before it waiting.               *)
LEMMA SendFailsKeeps ==
  ASSUME NEW chunks, DrainInv, SendFails(chunks)
  PROVE  DrainInv'
  <1>1. PICK upTo : Raise(upTo)
    <2>1. PICK k \in 0..(Len(chunks) - 1) :
            IF k > 0 THEN Raise(chunks[k].start + chunks[k].n) ELSE UNCHANGED raised
      BY DEF SendFails
    <2>2. CASE UNCHANGED raised
      BY <2>2 DEF Raise
    <2>3. QED
      BY <2>1, <2>2
  <1>2. PICK more \in Seq(RawAnnotation) :
          raised' = raised \o more /\ Accumulated = accum \o more
    BY <1>1, RaiseFacts
  <1>3. QED
    BY <1>2, AccumulateKeeps DEF SendFails

-----------------------------------------------------------------------------
(* Applying the same changes again changes nothing.                        *)
LEMMA ApplyTwice ==
  ASSUME NEW lv, NEW set
  PROVE  ApplyChanges(ApplyChanges(lv, set), set) = ApplyChanges(lv, set)
  BY DEF ApplyChanges

(* Sample numbers are naturals.                                            *)
LEMMA SampleIsNat ==
  ASSUME NEW tr \in Transition
  PROVE  SampleOf(tr.fs) \in Nat
  <1>1. tr.fs \in Nat
    BY ReplayBounds DEF Transition
  <1>2. QED
    BY <1>1, ScaleAssumption DEF SampleOf

(* A transition that was taken is the last of the trace, and applied.      *)
LEMMA FedKeeps ==
  ASSUME NEW tr \in Transition, FedInv, started',
         trace' = <<tr>> \/ trace' = Append(trace, tr),
         levels' = ApplyChanges(levels, tr.set),
         curSample' \in Nat, SampleOf(tr.fs) <= curSample'
  PROVE  FedInv'
  <1>1. /\ trace' \in Seq(Transition) /\ trace' # <<>>
        /\ trace'[Len(trace')] = tr
    <2>1. CASE trace' = <<tr>>
      BY <2>1
    <2>2. CASE trace' = Append(trace, tr)
      <3>1. trace \in Seq(Transition) /\ Len(trace) \in Nat
        BY LenProperties DEF FedInv
      <3>2. QED
        BY <2>2, <3>1
    <2>3. QED
      BY <2>1, <2>2
  <1>2. ApplyChanges(levels', tr.set) = levels'
    BY ApplyTwice
  <1>3. QED
    BY <1>1, <1>2 DEF FedInv, SampleOf

(* Nothing was raised or fed at first.                                     *)
LEMMA InitInvariant == Init => IInv
  <1> SUFFICES ASSUME Init PROVE IInv
    OBVIOUS
  <1>1. Events(<<>>) = <<>> /\ <<>> \o <<>> = <<>>
    BY ConcatEmptySeq, EmptySeq DEF Events
  <1>2. DrainInv
    BY <1>1, EmptySeq DEF Init, DrainInv
  <1>3. FedInv
    BY EmptySeq DEF Init, FedInv
  <1>4. QED
    BY <1>2, <1>3 DEF IInv

(* A feed keeps the balance and leaves its mark.                           *)
LEMMA FeedKeeps ==
  ASSUME IInv, NEW tr \in Transition, Feed(tr)
  PROVE  IInv'
  <1>1. DrainInv /\ FedInv /\ SampleOf(tr.fs) \in Nat /\ curSample \in Nat
    BY SampleIsNat DEF IInv, FedInv
  <1>2. CASE FeedFirst(tr)
    <2>1. DrainInv'
      BY <1>1, <1>2, DrainOnlyKeeps DEF FeedFirst
    <2>2. FedInv'
      BY <1>1, <1>2, FedKeeps DEF FeedFirst
    <2>3. QED
      BY <2>1, <2>2 DEF IInv
  <1>3. CASE FeedAdvance(tr)
    <2> DEFINE chunks == Chunks(curSample, SampleOf(tr.fs))
    <2>1. CASE SendFails(chunks) /\ UNCHANGED trace
      <3>1. DrainInv'
        BY <1>1, <2>1, SendFailsKeeps
      <3>2. FedInv'
        BY <1>1, <2>1 DEF FedInv, SendFails
      <3>3. QED
        BY <3>1, <3>2 DEF IInv
    <2>2. CASE ~(SendFails(chunks) /\ UNCHANGED trace)
      <3>1. DrainInv'
        BY <1>1, <1>3, <2>2, RaiseAndDrainKeeps DEF FeedAdvance
      <3>2. FedInv'
        <4>1. /\ started' /\ trace' = Append(trace, tr)
              /\ levels' = ApplyChanges(levels, tr.set)
              /\ curSample' = SampleOf(tr.fs)
          BY <1>3, <2>2 DEF FeedAdvance
        <4>2. QED
          BY <1>1, <4>1, FedKeeps
      <3>3. QED
        BY <3>1, <3>2 DEF IInv
    <2>3. QED
      BY <2>1, <2>2
  <1>4. CASE FeedMerge(tr)
    <2>1. DrainInv'
      BY <1>1, <1>4, DrainOnlyKeeps DEF FeedMerge
    <2>2. FedInv'
      BY <1>1, <1>4, FedKeeps DEF FeedMerge
    <2>3. QED
      BY <2>1, <2>2 DEF IInv
  <1>5. QED
    BY <1>2, <1>3, <1>4 DEF Feed

(* A finalize keeps the balance.                                           *)
LEMMA FinalizeKeeps ==
  ASSUME IInv, Finalize
  PROVE  IInv'
  <1>1. DrainInv /\ FedInv /\ curSample \in Nat
    BY DEF IInv, FedInv
  <1>2. CASE FinalizeStarted
    <2> DEFINE chunks == Chunks(curSample, curSample + 1)
    <2>1. CASE SendFails(chunks)
      <3>1. DrainInv'
        BY <1>1, <2>1, SendFailsKeeps
      <3>2. FedInv'
        BY <1>1, <1>2, <2>1 DEF FedInv, SendFails, FinalizeStarted
      <3>3. QED
        BY <3>1, <3>2 DEF IInv
    <2>2. CASE ~SendFails(chunks)
      <3>1. DrainInv'
        BY <1>1, <1>2, <2>2, RaiseAndDrainKeeps DEF FinalizeStarted
      <3>2. FedInv'
        BY <1>1, <1>2, <2>2 DEF FedInv, FinalizeStarted
      <3>3. QED
        BY <3>1, <3>2 DEF IInv
    <2>3. QED
      BY <2>1, <2>2
  <1>3. CASE FinalizeIdle
    <2>1. DrainInv'
      BY <1>1, <1>3, DrainOnlyKeeps DEF FinalizeIdle
    <2>2. FedInv'
      BY <1>1, <1>3 DEF FedInv, FinalizeIdle
    <2>3. QED
      BY <2>1, <2>2 DEF IInv
  <1>4. QED
    BY <1>2, <1>3 DEF Finalize

(* Every step does.                                                        *)
LEMMA NextInvariant == IInv /\ [Next]_vars => IInv'
  <1> SUFFICES ASSUME IInv, [Next]_vars PROVE IInv'
    OBVIOUS
  <1>1. CASE \E tr \in Transition : Feed(tr)
    BY <1>1, FeedKeeps
  <1>2. CASE Finalize
    BY <1>2, FinalizeKeeps
  <1>3. CASE UNCHANGED vars
    BY <1>3 DEF vars, IInv, DrainInv, FedInv, Events, Event, FsOf
  <1>4. QED
    BY <1>1, <1>2, <1>3 DEF Next

-----------------------------------------------------------------------------
(* Whatever is fed and whatever is refused, each annotation the library    *)
(* raised is returned once and in order, or waits (srd.rs feed, finalize,  *)
(* drain_into).                                                            *)
THEOREM AnnotationsSurvive == Spec => []NothingDropped
  <1>1. ASSUME IInv PROVE NothingDropped
    <2>1. ASSUME NEW i \in DOMAIN returned
          PROVE  returned[i].start_fs <= returned[i].end_fs
      <3>1. /\ Events(accum) \in Seq(AnnotationEvent)
            /\ Events(raised) \in Seq(AnnotationEvent)
            /\ Len(Events(raised)) = Len(raised)
            /\ \A j \in 1..Len(raised) : Events(raised)[j] = Event(raised[j])
        BY <1>1, EventsType DEF IInv, DrainInv
      <3>2. /\ i \in 1..(Len(returned) + Len(Events(accum))) /\ i <= Len(returned)
            /\ Len(returned) + Len(Events(accum)) = Len(raised)
            /\ (returned \o Events(accum))[i] = returned[i]
        BY <1>1, <3>1, ConcatProperties, LenProperties DEF IInv, DrainInv
      <3>3. returned[i] = Event(raised[i]) /\ raised[i] \in RawAnnotation
        BY <1>1, <3>1, <3>2, ElementOfSeq DEF IInv, DrainInv
      <3>4. QED
        BY <3>3, FsOfMonotone DEF Event, RawAnnotation
    <2>2. QED
      BY <1>1, <2>1 DEF IInv, DrainInv, Events, NothingDropped
  <1>2. QED
    BY <1>1, InitInvariant, NextInvariant, PTL DEF Spec

(* The loader's retry of a feed leaves the session as it is, with however  *)
(* many channels and wherever the transition stands between two samples    *)
(* (srd.rs feed; registry.rs feed).                                        *)
THEOREM RetriesAreHarmless == Spec => RetryIsHarmless
  <1>1. IInv /\ [Next]_vars =>
          [/\ started /\ started'
           /\ Len(trace') = Len(trace) + 1
           /\ trace'[Len(trace')] = trace[Len(trace)]
           => UNCHANGED <<curSample, levels, rows>>]_vars
    <2> SUFFICES ASSUME IInv, Next, started, started',
                        Len(trace') = Len(trace) + 1,
                        trace'[Len(trace')] = trace[Len(trace)]
                 PROVE  UNCHANGED <<curSample, levels, rows>>
      OBVIOUS
    <2>1. /\ trace \in Seq(Transition) /\ trace # <<>> /\ Len(trace) \in Nat
          /\ SampleOf(trace[Len(trace)].fs) <= curSample /\ curSample \in Nat
          /\ ApplyChanges(levels, trace[Len(trace)].set) = levels
      BY LenProperties DEF IInv, FedInv
    <2>2. trace' # trace
      BY <2>1
    <2>3. PICK tr \in Transition : FeedAdvance(tr) \/ FeedMerge(tr)
      BY <2>2 DEF Next, Feed, Finalize, FeedFirst, FinalizeStarted, FinalizeIdle
    <2>4. trace' = Append(trace, tr)
      BY <2>2, <2>3 DEF FeedAdvance, FeedMerge
    <2>5. trace[Len(trace)] = tr
      BY <2>1, <2>4
    <2>6. SampleOf(tr.fs) \in Nat
      BY SampleIsNat
    <2>7. ~FeedAdvance(tr)
      BY <2>1, <2>5, <2>6 DEF FeedAdvance
    <2>8. QED
      BY <2>1, <2>3, <2>5, <2>7 DEF FeedMerge
  <1>2. QED
    BY <1>1, InitInvariant, NextInvariant, PTL DEF Spec, RetryIsHarmless

-----------------------------------------------------------------------------
(* A set of naturals has a least element.                                  *)
LEMMA LeastElement ==
  ASSUME NEW T \in SUBSET Nat, T # {}
  PROVE  \E m \in T : \A k \in T : m <= k
  <1> DEFINE R == {p \in Nat \X Nat : p[1] < p[2]}
  <1>1. OpToRel(<, Nat) = R
    BY DEF OpToRel
  <1>2. IsWellFoundedOn(R, Nat)
    BY <1>1, NatLessThanWellFounded
  <1>3. \A x, y \in Nat : y < x => <<y, x>> \in R
    OBVIOUS
  <1> HIDE DEF R
  <1>4. \E x \in T : \A y \in T : ~(<<y, x>> \in R)
    BY <1>2, WFMin
  <1>5. PICK m \in T : \A y \in T : ~(<<y, m>> \in R)
    BY <1>4
  <1>6. \A k \in T : ~(k < m)
    BY <1>5, <1>3
  <1>7. QED
    BY <1>6

(* Induction over 0, 1, ..., for a set in the place of a predicate.        *)
LEMMA Induction ==
  ASSUME NEW T \in SUBSET Nat, 0 \in T, \A n \in T : n + 1 \in T
  PROVE  T = Nat
  <1>1. SUFFICES ASSUME Nat \ T # {} PROVE FALSE
    OBVIOUS
  <1>2. PICK m \in Nat \ T : \A k \in Nat \ T : m <= k
    BY <1>1, LeastElement
  <1>3. m # 0 /\ m - 1 \in Nat
    BY <1>2
  <1>4. m - 1 \in T
    BY <1>2, <1>3
  <1>5. QED
    BY <1>2, <1>3, <1>4

(* A set of naturals that has a bound and a member has a greatest element. *)
LEMMA GreatestElement ==
  ASSUME NEW T \in SUBSET Nat, T # {}, NEW b \in Nat, \A k \in T : k <= b
  PROVE  \E m \in T : \A k \in T : k <= m
  <1> DEFINE D == {b - k : k \in T}
  <1>1. D \in SUBSET Nat /\ D # {}
    <2>1. \A k \in T : b - k \in Nat
      OBVIOUS
    <2>2. D \in SUBSET Nat
      BY <2>1
    <2>3. QED
      BY <2>2
  <1>2. PICK d \in D : \A e \in D : d <= e
    BY <1>1, LeastElement
  <1>3. PICK m \in T : d = b - m
    OBVIOUS
  <1>4. ASSUME NEW k \in T PROVE k <= m
    <2>1. b - k \in D
      OBVIOUS
    <2>2. d <= b - k /\ k \in Nat /\ m \in Nat
      BY <1>2, <2>1
    <2>3. QED
      BY <1>3, <2>2
  <1>5. QED
    BY <1>4

-----------------------------------------------------------------------------
(* FlattenSeq is what its recursion says.                                  *)
LEMMA Flattened ==
  ASSUME NEW k \in Nat \ {0}, NEW seqs, NEW F, Len(seqs) = k,
         F = [i \in 1..k |-> IF i = 1 THEN seqs[i] ELSE F[i - 1] \o seqs[i]]
  PROVE  FlattenSeq(seqs) = F[k]
  <1> DEFINE Body(f) == [i \in 1..k |-> IF i = 1 THEN seqs[i] ELSE f[i - 1] \o seqs[i]]
             G == CHOOSE f : f = Body(f)
             T == {i \in Nat : i \in 1..k => G[i] = F[i]}
  <1>1. FlattenSeq(seqs) = G[k]
    <2>1. k # 0
      OBVIOUS
    <2>2. QED
      BY <2>1, Zenon DEF FlattenSeq
  <1>2. G = Body(G)
    <2>1. F = Body(F)
      OBVIOUS
    <2> HIDE DEF Body
    <2>2. QED
      BY <2>1
  <1> HIDE DEF G
  <1>3. ASSUME NEW i \in Nat, i \in 1..k => G[i] = F[i], i + 1 \in 1..k
        PROVE  G[i + 1] = F[i + 1]
    <2>1. CASE i = 0
      <3>1. G[1] = seqs[1] /\ F[1] = seqs[1] /\ i + 1 = 1
        BY <1>2, <2>1
      <3>2. QED
        BY ONLY <3>1
    <2>2. CASE i # 0
      <3>1. i \in 1..k /\ i + 1 # 1 /\ (i + 1) - 1 = i
        BY <1>3, <2>2
      <3>2. G[i + 1] = G[i] \o seqs[i + 1] /\ F[i + 1] = F[i] \o seqs[i + 1]
        BY <1>2, <1>3, <3>1
      <3>3. G[i] = F[i]
        BY <1>3, <3>1
      <3>4. QED
        BY ONLY <3>2, <3>3
    <2>3. QED
      BY <2>1, <2>2
  <1>4. ASSUME NEW i \in T PROVE i + 1 \in T
    BY ONLY i \in T, <1>3
  <1>5. 0 \in T /\ T \in SUBSET Nat
    OBVIOUS
  <1> HIDE DEF T
  <1>6. T = Nat
    BY <1>4, <1>5, Induction
  <1>7. k \in T /\ k \in 1..k
    BY <1>6
  <1>8. G[k] = F[k]
    BY ONLY <1>7 DEF T
  <1>9. QED
    BY <1>1, <1>8

(* n samples from sample a on, all of them at the current levels.          *)
Run(a, n) == [i \in 1..n |-> [at |-> a + i - 1, levels |-> levels]]

(* A run is a sequence of rows.                                            *)
LEMMA RunFacts ==
  ASSUME NEW a \in Nat, NEW n \in Nat, levels \in [Channel -> Level]
  PROVE  /\ Run(a, n) \in Seq(Row) /\ Len(Run(a, n)) = n
         /\ \A i \in 1..n : Run(a, n)[i] = [at |-> a + i - 1, levels |-> levels]
  <1>1. \A i \in 1..n : [at |-> a + i - 1, levels |-> levels] \in Row
    BY DEF Row
  <1>2. QED
    BY <1>1 DEF Run

(* Two runs of which one goes on where the other stops are one run.        *)
LEMMA RunConcat ==
  ASSUME NEW a \in Nat, NEW n \in Nat, NEW p \in Nat, levels \in [Channel -> Level]
  PROVE  Run(a, n) \o Run(a + n, p) = Run(a, n + p)
  <1>1. \A x, l \in Nat : /\ Run(x, l) \in Seq(Row) /\ Len(Run(x, l)) = l
                          /\ \A i \in 1..l :
                               Run(x, l)[i] = [at |-> x + i - 1, levels |-> levels]
    BY RunFacts
  <1>2. \A q, r \in Seq(Row) :
          /\ q \o r \in Seq(Row) /\ Len(q \o r) = Len(q) + Len(r)
          /\ \A i \in 1..(Len(q) + Len(r)) :
               (q \o r)[i] = IF i <= Len(q) THEN q[i] ELSE r[i - Len(q)]
    BY ConcatProperties
  <1>3. /\ Run(a, n) \in Seq(Row) /\ Len(Run(a, n)) = n
        /\ Run(a + n, p) \in Seq(Row) /\ Len(Run(a + n, p)) = p
        /\ Run(a, n + p) \in Seq(Row) /\ Len(Run(a, n + p)) = n + p
        /\ a + n \in Nat
    BY <1>1
  <1>4. /\ Run(a, n) \o Run(a + n, p) \in Seq(Row)
        /\ Len(Run(a, n) \o Run(a + n, p)) = n + p
        /\ \A i \in 1..(n + p) : (Run(a, n) \o Run(a + n, p))[i] =
             IF i <= n THEN Run(a, n)[i] ELSE Run(a + n, p)[i - n]
    <2>1. /\ Run(a, n) \o Run(a + n, p) \in Seq(Row)
          /\ Len(Run(a, n) \o Run(a + n, p)) = Len(Run(a, n)) + Len(Run(a + n, p))
          /\ \A i \in 1..(Len(Run(a, n)) + Len(Run(a + n, p))) :
               (Run(a, n) \o Run(a + n, p))[i] =
                 IF i <= Len(Run(a, n)) THEN Run(a, n)[i]
                 ELSE Run(a + n, p)[i - Len(Run(a, n))]
      BY ONLY <1>2, <1>3
    <2>2. QED
      BY <1>3, <2>1
  <1>5. ASSUME NEW i \in 1..(n + p)
        PROVE  (Run(a, n) \o Run(a + n, p))[i] = Run(a, n + p)[i]
    <2>1. Run(a, n + p)[i] = [at |-> a + i - 1, levels |-> levels]
      BY <1>1
    <2>2. CASE i <= n
      <3>1. Run(a, n)[i] = [at |-> a + i - 1, levels |-> levels]
        BY <1>1, <2>2
      <3>2. QED
        BY <1>4, <2>1, <2>2, <3>1
    <2>3. CASE ~(i <= n)
      <3>1. i - n \in 1..p /\ (a + n) + (i - n) - 1 = a + i - 1
        BY <2>3
      <3>2. Run(a + n, p)[i - n] = [at |-> (a + n) + (i - n) - 1, levels |-> levels]
        BY <1>1, <3>1, a + n \in Nat
      <3>3. QED
        BY <1>4, <2>1, <2>3, <3>1, <3>2
    <2>4. QED
      BY <2>2, <2>3
  <1>6. QED
    BY <1>3, <1>4, <1>5, SeqEqual

(* The chunks of [from, to) follow on one another and are none of them     *)
(* empty: after the i-th, sent[i] samples have gone.                       *)
Cuts(chunks, from, to, m, sent) ==
  /\ m \in Nat \ {0} /\ sent \in [0..m -> Nat]
  /\ chunks \in Seq([start : Nat, n : Nat]) /\ Len(chunks) = m
  /\ sent[0] = 0 /\ sent[m] = to - from
  /\ \A i \in 1..m : /\ chunks[i] = [start |-> from + sent[i - 1],
                                     n |-> sent[i] - sent[i - 1]]
                     /\ sent[i - 1] < sent[i]

(* A function on 1..m is a sequence of length m.                           *)
LEMMA FunctionIsSeq ==
  ASSUME NEW S, NEW m \in Nat, NEW f \in [1..m -> S]
  PROVE  f \in Seq(S) /\ Len(f) = m
  <1>1. f \in Seq(S)
    BY SeqDef
  <1>2. Len(f) \in Nat /\ DOMAIN f = 1..Len(f) /\ DOMAIN f = 1..m
    BY <1>1, LenProperties
  <1>3. QED
    BY <1>1, <1>2

(* What the quotient is, when it is multiplied out again.                  *)
LEMMA Division ==
  ASSUME NEW a \in Nat, NEW b \in Nat \ {0}
  PROVE  /\ a \div b \in Nat
         /\ (a \div b) * b <= a
         /\ a < (a \div b) * b + b
  OBVIOUS

(* The chunks of Chunks do.                                                *)
LEMMA ChunksCut ==
  ASSUME NEW from \in Nat, NEW to \in Nat, from < to
  PROVE  \E m, sent : Cuts(Chunks(from, to), from, to, m, sent)
  <1> DEFINE d == to - from
             m == (d + ChunkSamples - 1) \div ChunkSamples
             sent == [i \in 0..m |-> IF i * ChunkSamples <= d THEN i * ChunkSamples ELSE d]
  <1>1. /\ ChunkSamples \in Nat \ {0} /\ d \in Nat \ {0} /\ d + ChunkSamples - 1 \in Nat
        /\ to - from = d
    BY ChunkAssumption
  <1>2. m \in Nat /\ m * ChunkSamples <= d + ChunkSamples - 1
        /\ d + ChunkSamples - 1 < m * ChunkSamples + ChunkSamples
    BY <1>1, Division
  <1>3. Chunks(from, to) = [i \in 1..m |->
          LET start == from + (i - 1) * ChunkSamples
          IN [start |-> start,
              n |-> IF to - start < ChunkSamples THEN to - start ELSE ChunkSamples]]
    BY DEF Chunks
  <1>4. \A i \in Nat : /\ i * ChunkSamples \in Nat
                       /\ (i + 1) * ChunkSamples = i * ChunkSamples + ChunkSamples
    BY <1>1
  <1>5. \A i, j \in Nat : i <= j => i * ChunkSamples <= j * ChunkSamples
    BY <1>1
  <1>6. m # 0 /\ 0 * ChunkSamples = 0
    BY <1>1, <1>2
  <1>7. ASSUME NEW i \in 1..m
        PROVE  /\ i - 1 \in Nat /\ (i - 1) * ChunkSamples \in Nat
               /\ i * ChunkSamples = (i - 1) * ChunkSamples + ChunkSamples
               /\ (i - 1) * ChunkSamples < d
    <2>1. i - 1 \in Nat /\ (i - 1) + 1 = i
      BY <1>2
    <2>2. /\ i * ChunkSamples = (i - 1) * ChunkSamples + ChunkSamples
          /\ (i - 1) * ChunkSamples \in Nat
      BY <1>4, <2>1
    <2>3. i * ChunkSamples <= m * ChunkSamples
      BY ONLY i \in 1..m, <1>2, <1>5
    <2>4. m * ChunkSamples \in Nat
      BY <1>2, <1>4
    <2>5. (i - 1) * ChunkSamples + ChunkSamples <= d + ChunkSamples - 1
      BY <1>1, <1>2, <2>2, <2>4, <2>3
    <2>6. QED
      BY <1>1, <2>1, <2>2, <2>5
  <1>8. d <= m * ChunkSamples /\ m * ChunkSamples \in Nat
    BY <1>1, <1>2, <1>4
  <1> HIDE DEF d, m
  <1>9. sent \in [0..m -> Nat]
    BY <1>1, <1>4
  <1>10. sent[0] = 0 /\ sent[m] = to - from
    BY <1>1, <1>2, <1>6, <1>8
  <1>11. ASSUME NEW i \in 1..m
         PROVE  /\ Chunks(from, to)[i] = [start |-> from + sent[i - 1],
                                          n |-> sent[i] - sent[i - 1]]
                /\ sent[i - 1] < sent[i]
                /\ Chunks(from, to)[i] \in [start : Nat, n : Nat]
    <2> DEFINE q == (i - 1) * ChunkSamples
               r == IF q + ChunkSamples <= d THEN q + ChunkSamples ELSE d
    <2>1. /\ i \in 0..m /\ i - 1 \in 0..m
          /\ sent[i] = IF i * ChunkSamples <= d THEN i * ChunkSamples ELSE d
          /\ sent[i - 1] = IF q <= d THEN q ELSE d
      BY <1>2, <1>7
    <2>2. sent[i - 1] = q /\ sent[i] = r /\ q \in Nat /\ q < d
      BY <1>1, <1>7, <2>1
    <2>3. Chunks(from, to)[i] =
            [start |-> from + q,
             n |-> IF to - (from + q) < ChunkSamples THEN to - (from + q) ELSE ChunkSamples]
      BY <1>3
    <2> HIDE DEF q, sent
    <2>4. (IF to - (from + q) < ChunkSamples THEN to - (from + q) ELSE ChunkSamples) = r - q
      BY <1>1, <2>2
    <2>5. q < r /\ r - q \in Nat /\ from + q \in Nat
      BY <1>1, <2>2
    <2> HIDE DEF r
    <2>6. QED
      BY <2>2, <2>3, <2>4, <2>5
  <1>12. Chunks(from, to) \in Seq([start : Nat, n : Nat]) /\ Len(Chunks(from, to)) = m
    <2>1. Chunks(from, to) \in [1..m -> [start : Nat, n : Nat]]
      BY <1>3, <1>11
    <2>2. m \in Nat
      BY <1>2
    <2>3. QED
      BY <2>1, <2>2, FunctionIsSeq
  <1> HIDE DEF sent
  <1>13. Cuts(Chunks(from, to), from, to, m, sent)
    BY <1>2, <1>6, <1>9, <1>10, <1>11, <1>12 DEF Cuts
  <1>14. QED
    BY <1>13

(* What the first k chunks send is one run.                                *)
LEMMA ChunksRun ==
  ASSUME NEW chunks, NEW from \in Nat, NEW to \in Nat, NEW m, NEW sent,
         Cuts(chunks, from, to, m, sent), NEW k \in 0..m,
         levels \in [Channel -> Level]
  PROVE  RowsOf(SubSeq(chunks, 1, k)) = Run(from, sent[k])
  <1> DEFINE first == SubSeq(chunks, 1, k)
             seqs == [i \in DOMAIN first |-> ChunkRows(first[i])]
             F == [i \in 1..k |-> Run(from, sent[i])]
  <1>1. /\ chunks \in Seq([start : Nat, n : Nat]) /\ Len(chunks) = m
        /\ m \in Nat /\ k \in Nat
        /\ sent \in [0..m -> Nat] /\ sent[0] = 0
    BY DEF Cuts
  <1>2. /\ first \in Seq([start : Nat, n : Nat]) /\ Len(first) = k
        /\ \A i \in 1..k : first[i] = chunks[i]
    <2>1. /\ first \in Seq([start : Nat, n : Nat])
          /\ Len(first) = IF 1 <= k THEN k - 1 + 1 ELSE 0
          /\ \A i \in 1..(k - 1 + 1) : first[i] = chunks[1 + i - 1]
      <3>1. \A i \in 1..k : chunks[i] \in [start : Nat, n : Nat]
        <4> SUFFICES ASSUME NEW i \in 1..k PROVE chunks[i] \in [start : Nat, n : Nat]
          OBVIOUS
        <4>1. i \in 1..Len(chunks)
          BY <1>1
        <4>2. QED
          BY <1>1, <4>1, ElementOfSeq
      <3>2. 1 \in Int /\ k \in Int
        BY <1>1
      <3>3. QED
        BY <3>1, <3>2, SubSeqProperties
    <2>2. QED
      BY <1>1, <2>1
  <1>3. DOMAIN first = 1..k
    BY <1>2
  <1> HIDE DEF first
  <1>4. seqs = [i \in 1..k |-> ChunkRows(first[i])]
    BY <1>3
  <1>5. Len(seqs) = k
    BY <1>1, <1>4
  <1>6. RowsOf(first) = FlattenSeq(seqs)
    BY DEF RowsOf
  <1>7. ASSUME NEW i \in 1..k
        PROVE  /\ seqs[i] = Run(from + sent[i - 1], sent[i] - sent[i - 1])
               /\ sent[i - 1] \in Nat /\ sent[i] \in Nat /\ sent[i] - sent[i - 1] \in Nat
    <2>1. i \in 1..m /\ i - 1 \in 0..m /\ i \in 0..m
      BY <1>1
    <2>2. sent[i - 1] \in Nat /\ sent[i] \in Nat /\ sent[i - 1] < sent[i]
      BY <1>1, <2>1 DEF Cuts
    <2>3. first[i] = [start |-> from + sent[i - 1], n |-> sent[i] - sent[i - 1]]
      BY <1>2, <2>1 DEF Cuts
    <2>4. seqs[i] = ChunkRows(first[i])
      BY <1>4
    <2>5. QED
      BY <2>2, <2>3, <2>4 DEF ChunkRows, Run
  <1> HIDE DEF seqs
  <1>8. CASE k = 0
    <2>1. FlattenSeq(seqs) = seqs /\ seqs = <<>>
      <3>1. FlattenSeq(seqs) = seqs
        BY <1>5, <1>8, Zenon DEF FlattenSeq
      <3>2. QED
        BY <1>4, <1>8, <3>1
    <2>2. Run(from, 0) = <<>>
      BY DEF Run
    <2>3. QED
      BY <1>1, <1>6, <1>8, <2>1, <2>2 DEF first
  <1>9. CASE k # 0
    <2>1. ASSUME NEW i \in 1..k
          PROVE  F[i] = IF i = 1 THEN seqs[i] ELSE F[i - 1] \o seqs[i]
      <3>1. CASE i = 1
        <4>1. seqs[i] = Run(from + sent[0], sent[1] - sent[0]) /\ sent[1] \in Nat
          BY <1>7, <3>1
        <4>2. from + sent[0] = from /\ sent[1] - sent[0] = sent[1]
          BY <1>1, <4>1
        <4>3. QED
          BY <3>1, <4>1, <4>2
      <3>2. CASE i # 1
        <4>1. i - 1 \in 1..k
          BY <1>1, <3>2
        <4>2. Run(from, sent[i - 1]) \o Run(from + sent[i - 1], sent[i] - sent[i - 1])
                = Run(from, sent[i - 1] + (sent[i] - sent[i - 1]))
          BY <1>7, RunConcat
        <4>3. sent[i - 1] + (sent[i] - sent[i - 1]) = sent[i]
          BY <1>7
        <4>4. QED
          BY <1>7, <3>2, <4>1, <4>2, <4>3
      <3>3. QED
        BY <3>1, <3>2
    <2>2. F = [i \in 1..k |-> IF i = 1 THEN seqs[i] ELSE F[i - 1] \o seqs[i]]
      BY <2>1
    <2>3. k \in Nat \ {0} /\ F[k] = Run(from, sent[k])
      BY <1>1, <1>9
    <2> HIDE DEF F
    <2>4. FlattenSeq(seqs) = F[k]
      BY <1>5, <2>2, <2>3, Flattened
    <2>5. QED
      BY <1>6, <2>3, <2>4 DEF first
  <1>10. QED
    BY <1>8, <1>9

-----------------------------------------------------------------------------
(* The waveform of a list of transitions, with nothing chosen: what is in  *)
(* effect by sample s, which transitions decide a channel there, and that  *)
(* v is the value the last of those gave it.                               *)
Value(b) == IF b = "1" THEN 1 ELSE 0
InEffect(tc, i, s) == \A j \in 1..i : SampleOf(tc[j].fs) <= s
Decides(tc, s, c) ==
  {i \in DOMAIN tc : /\ InEffect(tc, i, s)
                     /\ c \in DOMAIN tc[i].set
                     /\ tc[i].set[c] # "X"}
Shows(tc, s, c, v) ==
  \A i \in Decides(tc, s, c) :
    (\A j \in Decides(tc, s, c) : j <= i) => v = Value(tc[i].set[c])

(* A transition that is not in effect at a sample has no part in it.       *)
LEMMA ShowsBefore ==
  ASSUME NEW tc \in Seq(Transition), NEW tr \in Transition, NEW s, NEW c, NEW v,
         ~InEffect(Append(tc, tr), Len(tc) + 1, s), Shows(tc, s, c, v)
  PROVE  Shows(Append(tc, tr), s, c, v)
  <1> DEFINE td == Append(tc, tr)
             n == Len(tc)
  <1>1. /\ n \in Nat /\ DOMAIN tc = 1..n /\ DOMAIN td = 1..(n + 1)
        /\ \A i \in 1..n : td[i] = tc[i]
    OBVIOUS
  <1> HIDE DEF td, n
  <1>2. \A i \in 1..n : InEffect(td, i, s) <=> InEffect(tc, i, s)
    BY <1>1 DEF InEffect
  <1>3. Decides(td, s, c) = Decides(tc, s, c)
    <2>1. n + 1 \notin Decides(td, s, c)
      BY DEF Decides, td, n
    <2>2. QED
      BY <1>1, <1>2, <2>1 DEF Decides
  <1>4. \A i \in Decides(tc, s, c) : td[i] = tc[i]
    BY <1>1 DEF Decides
  <1>5. Shows(td, s, c, v)
    BY <1>3, <1>4 DEF Shows
  <1>6. QED
    BY <1>5 DEF td

(* One that is in effect there sets its channels.                          *)
LEMMA ShowsAfter ==
  ASSUME NEW tc \in Seq(Transition), NEW tr \in Transition, NEW s, NEW c \in Channel,
         NEW lv \in [Channel -> Level],
         InEffect(Append(tc, tr), Len(tc) + 1, s), Shows(tc, s, c, lv[c])
  PROVE  Shows(Append(tc, tr), s, c, ApplyChanges(lv, tr.set)[c])
  <1> DEFINE td == Append(tc, tr)
             n == Len(tc)
             v == ApplyChanges(lv, tr.set)[c]
  <1>1. /\ n \in Nat /\ DOMAIN tc = 1..n /\ DOMAIN td = 1..(n + 1)
        /\ \A i \in 1..n : td[i] = tc[i]
        /\ td[n + 1] = tr
    OBVIOUS
  <1>2. v = IF c \in DOMAIN tr.set /\ tr.set[c] # "X" THEN Value(tr.set[c]) ELSE lv[c]
    BY DEF ApplyChanges, Value
  <1>3. InEffect(td, n + 1, s) /\ Shows(tc, s, c, lv[c])
    OBVIOUS
  <1> HIDE DEF td, n, v
  <1>4. \A i \in 1..n : InEffect(td, i, s) <=> InEffect(tc, i, s)
    BY <1>1 DEF InEffect
  <1>5. \A i \in 1..n : i \in Decides(td, s, c) <=> i \in Decides(tc, s, c)
    BY <1>1, <1>4 DEF Decides
  <1>6. n + 1 \in Decides(td, s, c) <=> (c \in DOMAIN tr.set /\ tr.set[c] # "X")
    BY <1>1, <1>3 DEF Decides
  <1>7. Decides(td, s, c) \subseteq 1..(n + 1) /\ Decides(tc, s, c) \subseteq 1..n
    BY <1>1 DEF Decides
  <1>8. CASE c \in DOMAIN tr.set /\ tr.set[c] # "X"
    <2>1. ASSUME NEW i \in Decides(td, s, c), \A j \in Decides(td, s, c) : j <= i
          PROVE  v = Value(td[i].set[c])
      <3>1. i = n + 1
        BY <1>1, <1>6, <1>7, <1>8, <2>1
      <3>2. QED
        BY <1>1, <1>2, <1>8, <3>1
    <2>2. QED
      BY <2>1 DEF Shows, td, v
  <1>9. CASE ~(c \in DOMAIN tr.set /\ tr.set[c] # "X")
    <2>1. Decides(td, s, c) = Decides(tc, s, c)
      <3>1. n + 1 \notin Decides(td, s, c)
        BY <1>6, <1>9
      <3>2. Decides(td, s, c) \subseteq 1..n
        BY <1>1, <1>7, <3>1
      <3>3. QED
        BY <1>5, <1>7, <3>2
    <2>2. \A i \in Decides(tc, s, c) : td[i] = tc[i]
      BY <1>1, <1>7
    <2>3. v = lv[c]
      BY <1>2, <1>9
    <2>4. Shows(td, s, c, v)
      BY <1>3, <2>1, <2>2, <2>3 DEF Shows
    <2>5. QED
      BY <2>4 DEF td, v
  <1>10. QED
    BY <1>8, <1>9

(* The first transition sets its channels too.                             *)
LEMMA ShowsFirst ==
  ASSUME NEW tr \in Transition, NEW s, NEW c \in Channel,
         NEW lv \in [Channel -> Level]
  PROVE  Shows(<<tr>>, s, c, ApplyChanges(lv, tr.set)[c])
  <1>1. DOMAIN <<tr>> = {1} /\ <<tr>>[1] = tr
    OBVIOUS
  <1>2. ASSUME NEW i \in Decides(<<tr>>, s, c)
        PROVE  /\ <<tr>>[i] = tr
               /\ c \in DOMAIN tr.set /\ tr.set[c] # "X"
    BY <1>1 DEF Decides
  <1>3. ASSUME c \in DOMAIN tr.set /\ tr.set[c] # "X"
        PROVE  ApplyChanges(lv, tr.set)[c] = Value(tr.set[c])
    BY <1>3 DEF ApplyChanges, Value
  <1>4. QED
    BY <1>2, <1>3 DEF Shows

(* The choices the properties make are made well.                          *)
LEMMA EffectiveSampleIs ==
  ASSUME trace \in Seq(Transition), NEW i \in DOMAIN trace
  PROVE  /\ EffectiveSample(i) \in Nat
         /\ InEffect(trace, i, EffectiveSample(i))
         /\ \E j \in 1..i : EffectiveSample(i) = SampleOf(trace[j].fs)
         /\ \A s \in Nat : EffectiveSample(i) <= s <=> InEffect(trace, i, s)
  <1> DEFINE T == {SampleOf(trace[j].fs) : j \in 1..i}
  <1>1. i \in 1..Len(trace) /\ Len(trace) \in Nat
    OBVIOUS
  <1>2. \A j \in 1..i : trace[j] \in Transition
    BY <1>1
  <1>3. ASSUME NEW j \in 1..i
        PROVE  SampleOf(trace[j].fs) \in Nat /\ SampleOf(trace[j].fs) <= MaxFs
    <2>1. trace[j].fs \in Nat /\ trace[j].fs <= MaxFs /\ MaxFs \in Nat
      BY <1>2, ReplayBounds DEF Transition
    <2>2. \A x \in Nat, y \in Nat \ {0} : x \div y \in Nat /\ x \div y <= x
      OBVIOUS
    <2>3. QED
      BY <2>1, <2>2, ScaleAssumption DEF SampleOf
  <1>4. T \in SUBSET Nat /\ T # {} /\ \A k \in T : k <= MaxFs
    <2>1. 1 \in 1..i
      BY <1>1
    <2>2. QED
      BY <1>3, <2>1
  <1>5. \E m \in T : \A k \in T : k <= m
    <2>1. MaxFs \in Nat
      BY ReplayBounds, TimeAssumption
    <2> HIDE DEF T
    <2>2. QED
      BY <1>4, <2>1, GreatestElement
  <1>6. \E m \in T : \A j \in 1..i : SampleOf(trace[j].fs) <= m
    BY <1>5
  <1>7. EffectiveSample(i) = CHOOSE m \in T : \A j \in 1..i : SampleOf(trace[j].fs) <= m
    BY DEF EffectiveSample
  <1>8. /\ EffectiveSample(i) \in T
        /\ \A j \in 1..i : SampleOf(trace[j].fs) <= EffectiveSample(i)
    BY <1>6, <1>7
  <1>9. PICK j \in 1..i : EffectiveSample(i) = SampleOf(trace[j].fs)
    BY <1>8
  <1>10. EffectiveSample(i) \in Nat
    BY <1>4, <1>8
  <1> HIDE DEF T
  <1>11. \A s \in Nat : EffectiveSample(i) <= s <=> InEffect(trace, i, s)
    BY <1>3, <1>8, <1>9, <1>10 DEF InEffect
  <1>12. QED
    BY <1>8, <1>9, <1>10, <1>11 DEF InEffect

(* What the list shows is the waveform of the properties.                  *)
LEMMA ShowsWave ==
  ASSUME trace \in Seq(Transition), NEW s \in Nat, NEW c, NEW v, Shows(trace, s, c, v)
  PROVE  WaveIs(s, c, v)
  <1>1. Deciding(s, c) = Decides(trace, s, c)
    BY EffectiveSampleIs DEF Deciding, Decides
  <1>2. SUFFICES ASSUME Deciding(s, c) # {}
        PROVE  v = IF trace[CHOOSE i \in Deciding(s, c) :
                              \A j \in Deciding(s, c) : j <= i].set[c] = "1"
                   THEN 1 ELSE 0
    BY DEF WaveIs
  <1>3. Len(trace) \in Nat /\ Deciding(s, c) \in SUBSET Nat
        /\ \A i \in Deciding(s, c) : i <= Len(trace)
    BY DEF Deciding
  <1>4. \E i \in Deciding(s, c) : \A j \in Deciding(s, c) : j <= i
    BY <1>2, <1>3, GreatestElement
  <1>5. PICK i \in Deciding(s, c) :
          /\ i = CHOOSE k \in Deciding(s, c) : \A j \in Deciding(s, c) : j <= k
          /\ \A j \in Deciding(s, c) : j <= i
    BY <1>4
  <1>6. v = Value(trace[i].set[c])
    BY <1>1, <1>5 DEF Shows
  <1>7. QED
    BY <1>5, <1>6 DEF Value

-----------------------------------------------------------------------------
(* The rows rs against the transitions tc, the sample base replay started  *)
(* at and the sample cur it goes on from: none is left out, the last row   *)
(* of a sample shows the waveform, and the levels lv are those to come.    *)
LastRow(rs, i, s) == rs[i].at = s /\ \A j \in DOMAIN rs : rs[j].at = s => j <= i
Covered(tc, rs, s) ==
  \E i \in DOMAIN rs : /\ LastRow(rs, i, s)
                       /\ \A c \in Channel : Shows(tc, s, c, rs[i].levels[c])
NoGap(rs, base, cur) ==
  /\ rs = <<>> => cur = base
  /\ rs # <<>> => cur <= rs[Len(rs)].at + 1
  /\ \A i \in DOMAIN rs : rs[i].at <= IF i = 1 THEN base ELSE rs[i - 1].at + 1
Dense(rs, base, cur) ==
  /\ Len(rs) = cur - base
  /\ \A i \in DOMAIN rs : rs[i].at = base + i - 1
Reached(tc, cur) ==
  /\ InEffect(tc, Len(tc), cur)
  /\ \E j \in DOMAIN tc : SampleOf(tc[j].fs) = cur
Held(tc, cur, lv) == \A s \in Nat, c \in Channel : s >= cur => Shows(tc, s, c, lv[c])

Baseline == SampleOf(trace[1].fs)

ReplayInv ==
  /\ started \in BOOLEAN
  /\ levels \in [Channel -> Level]
  /\ rows \in Seq(Row)
  /\ refused \in 0..MaxRefused
  /\ trace # <<>> =>
       /\ Baseline <= curSample
       /\ started => Reached(trace, curSample)
       /\ ~started => curSample # 0 /\ Reached(trace, curSample - 1)
       /\ NoGap(rows, Baseline, curSample)
       /\ refused = 0 => Dense(rows, Baseline, curSample)
       /\ Held(trace, curSample, levels)
       /\ \A s \in Baseline..(curSample - 1) : Covered(trace, rows, s)

(* The rows after n more of them, from sample a on.                        *)
Sent(a, n) == rows \o Run(a, n)

(* They are the rows that were there, and the new ones at their places.    *)
LEMMA SentFacts ==
  ASSUME rows \in Seq(Row), levels \in [Channel -> Level], NEW a \in Nat, NEW n \in Nat
  PROVE  /\ Sent(a, n) \in Seq(Row)
         /\ Len(Sent(a, n)) = Len(rows) + n /\ Len(rows) \in Nat
         /\ DOMAIN Sent(a, n) = 1..(Len(rows) + n) /\ DOMAIN rows = 1..Len(rows)
         /\ \A i \in 1..Len(rows) : Sent(a, n)[i] = rows[i] /\ rows[i].at \in Nat
         /\ \A i \in 1..(Len(rows) + n) : i > Len(rows) =>
              /\ Sent(a, n)[i].at = a + (i - Len(rows)) - 1
              /\ Sent(a, n)[i].levels = levels
  <1>1. /\ Run(a, n) \in Seq(Row) /\ Len(Run(a, n)) = n
        /\ \A i \in 1..n : Run(a, n)[i] = [at |-> a + i - 1, levels |-> levels]
    BY RunFacts
  <1>2. \A q, r \in Seq(Row) :
          /\ q \o r \in Seq(Row) /\ Len(q \o r) = Len(q) + Len(r)
          /\ \A i \in 1..(Len(q) + Len(r)) :
               (q \o r)[i] = IF i <= Len(q) THEN q[i] ELSE r[i - Len(q)]
    BY ConcatProperties
  <1>3. Len(rows) \in Nat /\ DOMAIN rows = 1..Len(rows)
    OBVIOUS
  <1>4. /\ Sent(a, n) \in Seq(Row)
        /\ Len(Sent(a, n)) = Len(rows) + Len(Run(a, n))
        /\ \A i \in 1..(Len(rows) + Len(Run(a, n))) :
             Sent(a, n)[i] = IF i <= Len(rows) THEN rows[i] ELSE Run(a, n)[i - Len(rows)]
    BY <1>1, <1>2 DEF Sent
  <1>5. /\ Len(Sent(a, n)) = Len(rows) + n
        /\ \A i \in 1..(Len(rows) + n) :
             Sent(a, n)[i] = IF i <= Len(rows) THEN rows[i] ELSE Run(a, n)[i - Len(rows)]
    BY <1>1, <1>4
  <1>6. DOMAIN Sent(a, n) = 1..(Len(rows) + n)
    BY <1>4, <1>5, LenProperties
  <1>7. ASSUME NEW i \in 1..Len(rows)
        PROVE  Sent(a, n)[i] = rows[i] /\ rows[i].at \in Nat
    <2>1. rows[i] \in Row
      OBVIOUS
    <2>2. QED
      BY <1>3, <1>5, <2>1 DEF Row
  <1>8. ASSUME NEW i \in 1..(Len(rows) + n), i > Len(rows)
        PROVE  /\ Sent(a, n)[i].at = a + (i - Len(rows)) - 1
               /\ Sent(a, n)[i].levels = levels
    <2>1. i - Len(rows) \in 1..n /\ ~(i <= Len(rows))
      BY <1>3, <1>8
    <2>2. Sent(a, n)[i] = Run(a, n)[i - Len(rows)]
      BY <1>5, <2>1
    <2>3. QED
      BY <1>1, <2>1, <2>2
  <1>9. QED
    BY <1>3, <1>4, <1>5, <1>6, <1>7, <1>8

(* Samples sent from the current one on leave no gap, however many.        *)
LEMMA SentNoGap ==
  ASSUME rows \in Seq(Row), levels \in [Channel -> Level], NEW base \in Nat,
         NEW a \in Nat, NEW n \in Nat, NoGap(rows, base, a)
  PROVE  /\ NoGap(Sent(a, n), base, a)
         /\ n # 0 => NoGap(Sent(a, n), base, a + n)
  <1> DEFINE q == Sent(a, n)
             l == Len(rows)
  <1>1. /\ q \in Seq(Row) /\ Len(q) = l + n /\ l \in Nat
        /\ DOMAIN q = 1..(l + n) /\ DOMAIN rows = 1..l
        /\ \A i \in 1..l : q[i] = rows[i] /\ rows[i].at \in Nat
        /\ \A i \in 1..(l + n) : i > l => q[i].at = a + (i - l) - 1
    BY SentFacts
  <1>2. (l = 0 <=> rows = <<>>) /\ (l + n = 0 <=> q = <<>>)
    BY <1>1
  <1>3. /\ l = 0 => a = base
        /\ l # 0 => a <= rows[l].at + 1
        /\ \A i \in 1..l : rows[i].at <= IF i = 1 THEN base ELSE rows[i - 1].at + 1
    BY <1>1, <1>2 DEF NoGap
  <1> HIDE DEF q, l
  <1>4. ASSUME NEW i \in 1..(l + n)
        PROVE  q[i].at <= IF i = 1 THEN base ELSE q[i - 1].at + 1
    <2>1. CASE i <= l
      <3>1. i \in 1..l /\ (i # 1 => i - 1 \in 1..l)
        BY <1>1, <2>1
      <3>2. QED
        BY <1>1, <1>3, <3>1
    <2>2. CASE i = l + 1
      <3>1. q[i].at = a
        BY <1>1, <2>2
      <3>2. CASE l = 0
        BY <1>3, <2>2, <3>1, <3>2
      <3>3. CASE l # 0
        <4>1. i # 1 /\ i - 1 = l /\ q[l] = rows[l]
          BY <1>1, <2>2, <3>3
        <4>2. QED
          BY <1>3, <3>1, <3>3, <4>1
      <3>4. QED
        BY <3>2, <3>3
    <2>3. CASE i > l + 1
      <3>1. i - 1 \in 1..(l + n) /\ i - 1 > l /\ i > l /\ i # 1
        BY <1>1, <2>3
      <3>2. q[i].at = a + (i - l) - 1 /\ q[i - 1].at = a + ((i - 1) - l) - 1
        BY <1>1, <3>1
      <3>3. QED
        BY <1>1, <3>1, <3>2
    <2>4. QED
      BY <1>1, <2>1, <2>2, <2>3
  <1>5. CASE n = 0
    <2>1. q = <<>> => a = base
      BY <1>1, <1>2, <1>3, <1>5
    <2>2. q # <<>> => a <= q[l + n].at + 1
      <3>1. q # <<>> => l # 0 /\ l + n = l /\ l \in 1..l
        BY <1>1, <1>2, <1>5
      <3>2. QED
        BY <1>1, <1>3, <3>1
    <2>3. NoGap(q, base, a)
      BY <1>1, <1>4, <2>1, <2>2 DEF NoGap
    <2>4. QED
      BY <1>5, <2>3 DEF q
  <1>6. CASE n # 0
    <2>1. q # <<>> /\ q[l + n].at = a + n - 1
      <3>1. l + n \in 1..(l + n) /\ l + n > l /\ (l + n) - l = n
        BY <1>1, <1>6
      <3>2. QED
        BY <1>1, <1>2, <3>1
    <2>2. a <= (a + n - 1) + 1 /\ a + n <= (a + n - 1) + 1
      OBVIOUS
    <2>3. NoGap(q, base, a) /\ NoGap(q, base, a + n)
      BY <1>1, <1>4, <2>1, <2>2 DEF NoGap
    <2>4. QED
      BY <2>3 DEF q
  <1>7. QED
    BY <1>5, <1>6

(* Nor do they repeat any, if none was repeated before.                    *)
LEMMA SentDense ==
  ASSUME rows \in Seq(Row), levels \in [Channel -> Level], NEW base \in Nat,
         NEW a \in Nat, NEW n \in Nat, Dense(rows, base, a)
  PROVE  Dense(Sent(a, n), base, a + n)
  <1> DEFINE q == Sent(a, n)
             l == Len(rows)
  <1>1. /\ Len(q) = l + n /\ l \in Nat
        /\ DOMAIN q = 1..(l + n) /\ DOMAIN rows = 1..l
        /\ \A i \in 1..l : q[i] = rows[i]
        /\ \A i \in 1..(l + n) : i > l => q[i].at = a + (i - l) - 1
    BY SentFacts
  <1>2. l = a - base /\ \A i \in 1..l : rows[i].at = base + i - 1
    BY <1>1 DEF Dense
  <1> HIDE DEF q, l
  <1>3. Len(q) = (a + n) - base
    BY <1>1, <1>2
  <1>4. ASSUME NEW i \in 1..(l + n) PROVE q[i].at = base + i - 1
    <2>1. CASE i <= l
      BY <1>1, <1>2, <2>1
    <2>2. CASE i > l
      <3>1. a + (i - l) - 1 = base + i - 1
        BY <1>1, <1>2
      <3>2. QED
        BY <1>1, <2>2, <3>1
    <2>3. QED
      BY <1>1, <2>1, <2>2
  <1>5. Dense(q, base, a + n)
    BY <1>1, <1>3, <1>4 DEF Dense
  <1>6. QED
    BY <1>5 DEF q

(* A sample before the current one keeps its last row, and each one that   *)
(* is sent gets one, at the current levels.                                *)
LEMMA SentCovered ==
  ASSUME rows \in Seq(Row), levels \in [Channel -> Level],
         NEW a \in Nat, NEW n \in Nat, NEW tc, NEW s \in Nat,
         \/ s < a /\ Covered(tc, rows, s)
         \/ /\ a <= s /\ s < a + n
            /\ \A c \in Channel : Shows(tc, s, c, levels[c])
  PROVE  Covered(tc, Sent(a, n), s)
  <1> DEFINE q == Sent(a, n)
             l == Len(rows)
  <1>1. /\ Len(q) = l + n /\ l \in Nat
        /\ DOMAIN q = 1..(l + n) /\ DOMAIN rows = 1..l
        /\ \A i \in 1..l : q[i] = rows[i]
        /\ \A i \in 1..(l + n) : i > l =>
             q[i].at = a + (i - l) - 1 /\ q[i].levels = levels
    BY SentFacts
  <1> HIDE DEF q, l
  <1>2. CASE s < a /\ Covered(tc, rows, s)
    <2>1. PICK i \in 1..l : /\ LastRow(rows, i, s)
                            /\ \A c \in Channel : Shows(tc, s, c, rows[i].levels[c])
      BY <1>1, <1>2 DEF Covered
    <2>2. i \in DOMAIN q /\ q[i] = rows[i]
      BY <1>1
    <2>3. ASSUME NEW j \in DOMAIN q, q[j].at = s PROVE j <= i
      <3>1. ~(j > l)
        BY <1>1, <1>2, <2>3
      <3>2. j \in 1..l /\ rows[j].at = s
        BY <1>1, <2>3, <3>1
      <3>3. QED
        BY <1>1, <2>1, <3>2 DEF LastRow
    <2>4. LastRow(q, i, s)
      BY <2>1, <2>2, <2>3 DEF LastRow
    <2>5. Covered(tc, q, s)
      BY <2>1, <2>2, <2>4 DEF Covered
    <2>6. QED
      BY <2>5 DEF q
  <1>3. CASE /\ a <= s /\ s < a + n
             /\ \A c \in Channel : Shows(tc, s, c, levels[c])
    <2> DEFINE i == l + (s - a) + 1
    <2>1. /\ i \in 1..(l + n) /\ i > l /\ a + (i - l) - 1 = s
          /\ \A j \in 1..(l + n) : j > l /\ a + (j - l) - 1 = s => j = i
          /\ \A j \in 1..(l + n) : ~(j > l) => j <= i
      BY <1>1, <1>3
    <2> HIDE DEF i
    <2>2. q[i].at = s /\ q[i].levels = levels /\ i \in DOMAIN q
      BY <1>1, <2>1
    <2>3. \A j \in DOMAIN q : q[j].at = s => j <= i
      BY <1>1, <2>1
    <2>4. LastRow(q, i, s)
      BY <2>2, <2>3 DEF LastRow
    <2>5. Covered(tc, q, s)
      BY <1>3, <2>2, <2>4 DEF Covered
    <2>6. QED
      BY <2>5 DEF q
  <1>4. QED
    BY <1>2, <1>3

(* A transition that comes into effect later leaves what is covered so.    *)
LEMMA CoveredBefore ==
  ASSUME NEW tc \in Seq(Transition), NEW tr \in Transition, NEW s, NEW rs,
         ~InEffect(Append(tc, tr), Len(tc) + 1, s), Covered(tc, rs, s)
  PROVE  Covered(Append(tc, tr), rs, s)
  BY ShowsBefore DEF Covered

(* What goes out of a run, to its end or cut short, goes from cur_sample   *)
(* on and at the current levels.                                           *)
LEMMA SendsRun ==
  ASSUME NEW from \in Nat, NEW to \in Nat, from < to, levels \in [Channel -> Level]
  PROVE  /\ Record(RowsOf(Chunks(from, to))) => rows' = Sent(from, to - from)
         /\ SendFails(Chunks(from, to)) => \E n \in Nat : rows' = Sent(from, n)
  <1> DEFINE chunks == Chunks(from, to)
  <1>1. PICK m, sent : Cuts(chunks, from, to, m, sent)
    BY ChunksCut
  <1>2. /\ m \in Nat \ {0} /\ sent \in [0..m -> Nat] /\ sent[m] = to - from
        /\ chunks \in Seq([start : Nat, n : Nat]) /\ Len(chunks) = m
    BY <1>1 DEF Cuts
  <1> HIDE DEF chunks
  <1>3. \A k \in 0..m : RowsOf(SubSeq(chunks, 1, k)) = Run(from, sent[k])
    BY <1>1, ChunksRun
  <1>4. SubSeq(chunks, 1, m) = chunks
    BY ONLY <1>2, SubSeqFull
  <1>5. RowsOf(chunks) = Run(from, to - from)
    <2>1. m \in 0..m
      BY <1>2
    <2>2. RowsOf(SubSeq(chunks, 1, m)) = Run(from, sent[m])
      BY <1>3, <2>1
    <2>3. QED
      BY <1>2, <1>4, <2>2
  <1>6. ASSUME SendFails(chunks) PROVE \E n \in Nat : rows' = Sent(from, n)
    <2>1. PICK k \in 0..(m - 1) : Record(RowsOf(SubSeq(chunks, 1, k)))
      BY <1>2, <1>6 DEF SendFails
    <2>2. k \in 0..m /\ sent[k] \in Nat
      BY <1>2
    <2>3. rows' = Sent(from, sent[k])
      BY <1>3, <2>1, <2>2 DEF Record, Sent
    <2>4. QED
      BY <2>2, <2>3
  <1>7. QED
    BY <1>5, <1>6 DEF Record, Sent, chunks

(* The last transition of a trace, in effect or not.                       *)
LEMMA LastInEffect ==
  ASSUME NEW tc \in Seq(Transition), NEW tr \in Transition, NEW s \in Nat
  PROVE  /\ InEffect(Append(tc, tr), Len(tc) + 1, s)
              <=> InEffect(tc, Len(tc), s) /\ SampleOf(tr.fs) <= s
         /\ Len(Append(tc, tr)) = Len(tc) + 1
  <1>1. /\ Len(tc) \in Nat
        /\ \A i \in 1..Len(tc) : Append(tc, tr)[i] = tc[i]
        /\ Append(tc, tr)[Len(tc) + 1] = tr
        /\ Len(Append(tc, tr)) = Len(tc) + 1
    OBVIOUS
  <1>2. \A i \in 1..(Len(tc) + 1) : i \in 1..Len(tc) \/ i = Len(tc) + 1
    BY <1>1
  <1>3. /\ \A i \in 1..Len(tc) : i \in 1..(Len(tc) + 1)
        /\ Len(tc) + 1 \in 1..(Len(tc) + 1)
    BY <1>1
  <1>4. QED
    BY <1>1, <1>2, <1>3 DEF InEffect

(* Levels stay levels.                                                     *)
LEMMA ApplyTyped ==
  ASSUME NEW lv \in [Channel -> Level], NEW set
  PROVE  ApplyChanges(lv, set) \in [Channel -> Level]
  BY DEF ApplyChanges, Level

(* The first transition of a trace stays that.                             *)
LEMMA BaselineStays ==
  ASSUME trace \in Seq(Transition), trace # <<>>, NEW tr \in Transition,
         trace' = Append(trace, tr)
  PROVE  Baseline' = Baseline /\ Baseline \in Nat /\ trace' # <<>>
  <1>1. trace'[1] = trace[1] /\ trace[1] \in Transition /\ trace' # <<>>
    OBVIOUS
  <1>2. QED
    BY <1>1, SampleIsNat DEF Baseline, SampleOf

(* The session starts with no row and no transition.                       *)
LEMMA ReplayInit == Init => ReplayInv
  <1> SUFFICES ASSUME Init PROVE ReplayInv
    OBVIOUS
  <1>1. levels \in [Channel -> Level] /\ rows \in Seq(Row) /\ refused \in 0..MaxRefused
    BY ReplayBounds DEF Init, Level
  <1>2. QED
    BY <1>1 DEF Init, ReplayInv

(* A refused chunk: the rows before it stand, and the session goes on from *)
(* where it was.                                                           *)
LEMMA SendFailsReplay ==
  ASSUME IInv, ReplayInv, trace # <<>>, UNCHANGED trace,
         NEW to \in Nat, curSample < to, SendFails(Chunks(curSample, to))
  PROVE  ReplayInv'
  <1>1. /\ trace \in Seq(Transition) /\ curSample \in Nat
        /\ rows \in Seq(Row) /\ levels \in [Channel -> Level]
        /\ refused \in 0..MaxRefused /\ MaxRefused \in Nat
    BY ReplayBounds DEF IInv, FedInv, ReplayInv
  <1>2. PICK n \in Nat : rows' = Sent(curSample, n)
    BY <1>1, SendsRun
  <1>3. /\ refused' \in 0..MaxRefused /\ refused' # 0
        /\ UNCHANGED <<trace, curSample, levels, started>>
    BY <1>1 DEF SendFails
  <1>4. Baseline' = Baseline /\ Baseline \in Nat
    <2>1. trace[1] \in Transition
      BY <1>1
    <2>2. QED
      BY <1>3, <2>1, SampleIsNat DEF Baseline, SampleOf
  <1>5. rows' \in Seq(Row)
    BY <1>1, <1>2, SentFacts
  <1>6. NoGap(rows', Baseline, curSample)
    BY <1>1, <1>2, <1>4, SentNoGap DEF ReplayInv
  <1>7. ASSUME NEW s \in Baseline..(curSample - 1) PROVE Covered(trace, rows', s)
    <2>1. s \in Nat /\ s < curSample /\ Covered(trace, rows, s)
      BY <1>1, <1>4 DEF ReplayInv
    <2>2. QED
      BY <1>1, <1>2, <2>1, SentCovered
  <1>8. QED
    BY <1>3, <1>4, <1>5, <1>6, <1>7 DEF ReplayInv

(* The first transition sets the baseline, and forgets the rows before.    *)
LEMMA FeedFirstReplay ==
  ASSUME IInv, ReplayInv, NEW tr \in Transition, FeedFirst(tr)
  PROVE  ReplayInv'
  <1>1. /\ levels' = ApplyChanges(levels, tr.set) /\ levels \in [Channel -> Level]
        /\ curSample' = SampleOf(tr.fs) /\ started' = TRUE /\ rows' = <<>>
        /\ trace' = <<tr>> /\ refused' = 0
    BY DEF FeedFirst, ReplayInv
  <1>2. curSample' \in Nat /\ Baseline' = curSample'
    <2>1. trace'[1] = tr
      BY <1>1
    <2>2. QED
      BY <1>1, <2>1, SampleIsNat DEF Baseline, SampleOf
  <1>3. levels' \in [Channel -> Level] /\ refused' \in 0..MaxRefused /\ rows' \in Seq(Row)
    BY <1>1, ApplyTyped, ReplayBounds
  <1>4. Reached(trace', curSample')
    <2>1. DOMAIN trace' = {1} /\ Len(trace') = 1 /\ trace'[1] = tr /\ 1..1 = {1}
      BY <1>1
    <2>2. QED
      BY <1>1, <1>2, <2>1 DEF Reached, InEffect
  <1>5. NoGap(rows', Baseline', curSample') /\ Dense(rows', Baseline', curSample')
    BY <1>1, <1>2 DEF NoGap, Dense
  <1>6. Held(trace', curSample', levels')
    BY <1>1, ShowsFirst DEF Held
  <1>7. ASSUME NEW s \in Baseline'..(curSample' - 1) PROVE FALSE
    <2>1. \A x \in Nat : ~(\E y \in x..(x - 1) : TRUE)
      OBVIOUS
    <2>2. QED
      BY <1>2, <2>1
  <1>8. QED
    BY <1>1, <1>2, <1>3, <1>4, <1>5, <1>6, <1>7 DEF ReplayInv

(* A later one is sent rows up to, which it does not show in yet.          *)
LEMMA FeedAdvanceReplay ==
  ASSUME IInv, ReplayInv, NEW tr \in Transition, FeedAdvance(tr)
  PROVE  ReplayInv'
  <1> DEFINE to == SampleOf(tr.fs)
  <1>1. /\ started /\ trace # <<>> /\ trace \in Seq(Transition) /\ curSample \in Nat
        /\ rows \in Seq(Row) /\ levels \in [Channel -> Level]
        /\ to \in Nat /\ curSample < to
    BY SampleIsNat DEF IInv, FedInv, ReplayInv, FeedAdvance
  <1>2. CASE SendFails(Chunks(curSample, to)) /\ UNCHANGED trace
    BY <1>1, <1>2, SendFailsReplay
  <1>3. CASE ~(SendFails(Chunks(curSample, to)) /\ UNCHANGED trace)
    <2>1. /\ Record(RowsOf(Chunks(curSample, to))) /\ curSample' = to
          /\ levels' = ApplyChanges(levels, tr.set)
          /\ trace' = Append(trace, tr)
          /\ UNCHANGED <<started, refused>>
      BY <1>3 DEF FeedAdvance
    <2> DEFINE n == to - curSample
    <2>2. rows' = Sent(curSample, n)
      BY <1>1, <2>1, SendsRun
    <2>3. /\ Baseline' = Baseline /\ Baseline \in Nat /\ trace' # <<>>
          /\ n \in Nat \ {0} /\ curSample + n = to
      BY <1>1, <2>1, BaselineStays
    <2>4. rows' \in Seq(Row) /\ levels' \in [Channel -> Level]
      BY <1>1, <2>1, <2>2, <2>3, SentFacts, ApplyTyped
    <2> HIDE DEF n, to
    <2>5. \A s \in Nat : InEffect(trace', Len(trace) + 1, s) <=> to <= s
      <3>1. InEffect(trace, Len(trace), curSample)
        BY <1>1 DEF ReplayInv, Reached
      <3>2. \A s \in Nat : to <= s => InEffect(trace, Len(trace), s)
        <4>1. \A j \in 1..Len(trace) : SampleOf(trace[j].fs) \in Nat
          BY <1>1, SampleIsNat
        <4>2. QED
          BY <1>1, <3>1, <4>1 DEF InEffect
      <3>3. QED
        BY <1>1, <2>1, <3>2, LastInEffect DEF to
    <2>6. Reached(trace', to)
      <3>1. Len(trace') = Len(trace) + 1 /\ Len(trace) + 1 \in DOMAIN trace'
            /\ trace'[Len(trace) + 1] = tr
        BY <1>1, <2>1
      <3>2. QED
        BY <1>1, <2>5, <3>1 DEF Reached, to
    <2>7. NoGap(rows', Baseline, to)
      BY <1>1, <2>2, <2>3, SentNoGap DEF ReplayInv
    <2>8. refused = 0 => Dense(rows', Baseline, to)
      BY <1>1, <2>2, <2>3, SentDense DEF ReplayInv
    <2>9. Held(trace', to, levels')
      <3>1. ASSUME NEW s \in Nat, NEW c \in Channel, s >= to
            PROVE  Shows(trace', s, c, levels'[c])
        <4>1. Shows(trace, s, c, levels[c])
          BY <1>1, <3>1 DEF ReplayInv, Held
        <4>2. InEffect(trace', Len(trace) + 1, s)
          BY <1>1, <2>5, <3>1
        <4>3. QED
          BY <1>1, <2>1, <4>1, <4>2, ShowsAfter
      <3>2. QED
        BY <3>1 DEF Held
    <2>10. ASSUME NEW s \in Baseline..(to - 1) PROVE Covered(trace', rows', s)
      <3>1. s \in Nat /\ s < to
        BY <1>1, <2>3
      <3>2. Covered(trace, rows', s)
        <4>1. CASE s < curSample
          <5>1. s \in Baseline..(curSample - 1)
            BY <1>1, <2>3, <3>1, <4>1
          <5>2. Covered(trace, rows, s)
            BY <1>1, <5>1 DEF ReplayInv
          <5>3. QED
            BY <1>1, <2>2, <2>3, <3>1, <4>1, <5>2, SentCovered
        <4>2. CASE curSample <= s
          <5>1. \A c \in Channel : Shows(trace, s, c, levels[c])
            BY <1>1, <3>1, <4>2 DEF ReplayInv, Held
          <5>2. QED
            BY <1>1, <2>2, <2>3, <3>1, <4>2, <5>1, SentCovered
        <4>3. QED
          BY <1>1, <3>1, <4>1, <4>2
      <3>3. ~InEffect(trace', Len(trace) + 1, s)
        BY <1>1, <2>5, <3>1
      <3>4. QED
        BY <1>1, <2>1, <3>2, <3>3, CoveredBefore
    <2>11. Baseline <= to
      BY <1>1, <2>3 DEF ReplayInv
    <2>12. QED
      BY <1>1, <2>1, <2>3, <2>4, <2>6, <2>7, <2>8, <2>9, <2>10, <2>11
      DEF ReplayInv, to
  <1>4. QED
    BY <1>2, <1>3

(* One in the current sample, or before it, shows in it.                   *)
LEMMA FeedMergeReplay ==
  ASSUME IInv, ReplayInv, NEW tr \in Transition, FeedMerge(tr)
  PROVE  ReplayInv'
  <1>1. /\ started /\ trace # <<>> /\ trace \in Seq(Transition) /\ curSample \in Nat
        /\ levels \in [Channel -> Level]
        /\ SampleOf(tr.fs) \in Nat /\ SampleOf(tr.fs) <= curSample
        /\ levels' = ApplyChanges(levels, tr.set)
        /\ trace' = Append(trace, tr)
        /\ UNCHANGED <<started, curSample, rows, refused>>
    BY SampleIsNat DEF IInv, FedInv, ReplayInv, FeedMerge
  <1>2. Baseline' = Baseline /\ Baseline \in Nat /\ trace' # <<>>
    BY <1>1, BaselineStays
  <1>3. /\ Reached(trace, curSample)
        /\ \A j \in 1..Len(trace) : SampleOf(trace[j].fs) \in Nat
    BY <1>1, SampleIsNat DEF ReplayInv
  <1>4. \A s \in Nat : InEffect(trace', Len(trace) + 1, s) <=> curSample <= s
    <2>1. \A s \in Nat : curSample <= s => InEffect(trace, Len(trace), s)
      BY <1>1, <1>3 DEF Reached, InEffect
    <2>2. \A s \in Nat : InEffect(trace, Len(trace), s) => curSample <= s
      BY <1>1, <1>3 DEF Reached, InEffect
    <2>3. QED
      BY <1>1, <2>1, <2>2, LastInEffect
  <1>5. Reached(trace', curSample)
    <2>1. PICK j \in 1..Len(trace) : SampleOf(trace[j].fs) = curSample
      BY <1>1, <1>3 DEF Reached
    <2>2. Len(trace') = Len(trace) + 1 /\ j \in DOMAIN trace' /\ trace'[j] = trace[j]
      BY <1>1
    <2>3. QED
      BY <1>1, <1>4, <2>1, <2>2 DEF Reached
  <1>6. Held(trace', curSample, levels')
    <2>1. ASSUME NEW s \in Nat, NEW c \in Channel, s >= curSample
          PROVE  Shows(trace', s, c, levels'[c])
      <3>1. Shows(trace, s, c, levels[c])
        BY <1>1, <2>1 DEF ReplayInv, Held
      <3>2. InEffect(trace', Len(trace) + 1, s)
        BY <1>1, <1>4, <2>1
      <3>3. QED
        BY <1>1, <3>1, <3>2, ShowsAfter
    <2>2. QED
      BY <2>1 DEF Held
  <1>7. ASSUME NEW s \in Baseline..(curSample - 1) PROVE Covered(trace', rows, s)
    <2>1. s \in Nat /\ s < curSample /\ Covered(trace, rows, s)
      BY <1>1, <1>2 DEF ReplayInv
    <2>2. ~InEffect(trace', Len(trace) + 1, s)
      BY <1>1, <1>4, <2>1
    <2>3. QED
      BY <1>1, <2>1, <2>2, CoveredBefore
  <1>8. levels' \in [Channel -> Level]
    BY <1>1, ApplyTyped
  <1>9. QED
    BY <1>1, <1>2, <1>5, <1>6, <1>7, <1>8 DEF ReplayInv

(* The last row shows the levels all transitions leave.                    *)
LEMMA FinalizeReplay ==
  ASSUME IInv, ReplayInv, FinalizeStarted
  PROVE  ReplayInv'
  <1> DEFINE to == curSample + 1
  <1>1. /\ started /\ trace # <<>> /\ trace \in Seq(Transition) /\ curSample \in Nat
        /\ rows \in Seq(Row) /\ levels \in [Channel -> Level] /\ UNCHANGED trace
        /\ to \in Nat /\ curSample < to /\ to - curSample = 1 /\ to - 1 = curSample
    BY DEF IInv, FedInv, ReplayInv, FinalizeStarted
  <1>2. Baseline' = Baseline /\ Baseline \in Nat
    <2>1. trace[1] \in Transition
      BY <1>1
    <2>2. QED
      BY <1>1, <2>1, SampleIsNat DEF Baseline, SampleOf
  <1>3. CASE SendFails(Chunks(curSample, to))
    BY <1>1, <1>3, SendFailsReplay
  <1>4. CASE ~SendFails(Chunks(curSample, to))
    <2>1. /\ Record(RowsOf(Chunks(curSample, to))) /\ curSample' = to
          /\ started' = FALSE /\ UNCHANGED <<levels, refused>>
      BY <1>4 DEF FinalizeStarted
    <2>2. rows' = Sent(curSample, 1)
      BY <1>1, <2>1, SendsRun
    <2>3. rows' \in Seq(Row)
      BY <1>1, <2>2, SentFacts
    <2>4. NoGap(rows', Baseline, to)
      BY <1>1, <1>2, <2>2, SentNoGap DEF ReplayInv
    <2>5. refused = 0 => Dense(rows', Baseline, to)
      BY <1>1, <1>2, <2>2, SentDense DEF ReplayInv
    <2>6. Held(trace, to, levels)
      BY <1>1 DEF ReplayInv, Held
    <2>7. ASSUME NEW s \in Baseline..(to - 1) PROVE Covered(trace, rows', s)
      <3>1. s \in Nat /\ s < curSample + 1
        BY <1>1, <1>2
      <3>2. CASE s < curSample
        <4>1. s \in Baseline..(curSample - 1)
          BY <1>1, <1>2, <3>1, <3>2
        <4>2. Covered(trace, rows, s)
          BY <1>1, <4>1 DEF ReplayInv
        <4>3. QED
          BY <1>1, <2>2, <3>1, <3>2, <4>2, SentCovered
      <3>3. CASE curSample <= s
        <4>1. \A c \in Channel : Shows(trace, s, c, levels[c])
          BY <1>1, <3>1, <3>3 DEF ReplayInv, Held
        <4>2. QED
          BY <1>1, <2>2, <3>1, <3>3, <4>1, SentCovered
      <3>4. QED
        BY <1>1, <3>1, <3>2, <3>3
    <2>8. to # 0 /\ Reached(trace, to - 1) /\ Baseline <= to
      BY <1>1, <1>2 DEF ReplayInv
    <2>9. QED
      BY <1>1, <1>2, <2>1, <2>3, <2>4, <2>5, <2>6, <2>7, <2>8 DEF ReplayInv
  <1>5. QED
    BY <1>3, <1>4

(* Every step keeps the rows in order.                                     *)
LEMMA ReplayNext == IInv /\ ReplayInv /\ [Next]_vars => ReplayInv'
  <1> SUFFICES ASSUME IInv, ReplayInv, [Next]_vars PROVE ReplayInv'
    OBVIOUS
  <1>1. CASE \E tr \in Transition : Feed(tr)
    BY <1>1, FeedFirstReplay, FeedAdvanceReplay, FeedMergeReplay DEF Feed
  <1>2. CASE FinalizeStarted
    BY <1>2, FinalizeReplay
  <1>3. CASE FinalizeIdle
    BY <1>3 DEF FinalizeIdle, ReplayInv, Baseline, SampleOf
  <1>4. CASE UNCHANGED vars
    BY <1>4 DEF vars, ReplayInv, Baseline, SampleOf
  <1>5. QED
    BY <1>1, <1>2, <1>3, <1>4 DEF Next, Finalize

(* Both invariants hold throughout.                                        *)
LEMMA ReplayInvariance == Spec => [](IInv /\ ReplayInv)
  <1>1. Init => IInv /\ ReplayInv
    BY InitInvariant, ReplayInit
  <1>2. (IInv /\ ReplayInv) /\ [Next]_vars => (IInv /\ ReplayInv)'
    BY NextInvariant, ReplayNext
  <1>3. QED
    BY <1>1, <1>2, PTL DEF Spec

(* A session keeps to its types, whatever is fed.                          *)
THEOREM ReplayTyped == Spec => []TypeOK
  <1>1. IInv /\ ReplayInv => TypeOK
    BY DEF IInv, DrainInv, FedInv, ReplayInv, TypeOK
  <1>2. QED
    BY <1>1, ReplayInvariance, PTL

(* Where replay stands, in the words of the properties.                    *)
LEMMA LatestIs ==
  ASSUME IInv, ReplayInv, trace # <<>>
  PROVE  /\ curSample = EffectiveSample(Len(trace)) + (IF started THEN 0 ELSE 1)
         /\ Baseline \in Nat
  <1> DEFINE e == EffectiveSample(Len(trace))
             l == IF started THEN curSample ELSE curSample - 1
  <1>1. /\ trace \in Seq(Transition) /\ curSample \in Nat
        /\ Len(trace) \in DOMAIN trace /\ DOMAIN trace = 1..Len(trace)
        /\ trace[1] \in Transition
        /\ \A j \in DOMAIN trace : trace[j] \in Transition
    BY DEF IInv, FedInv
  <1>2. /\ e \in Nat /\ InEffect(trace, Len(trace), e)
        /\ \E j \in 1..Len(trace) : e = SampleOf(trace[j].fs)
    BY <1>1, EffectiveSampleIs
  <1>3. l \in Nat /\ Reached(trace, l)
    BY <1>1 DEF ReplayInv
  <1> HIDE DEF e, l
  <1>4. e <= l /\ l <= e
    BY <1>1, <1>2, <1>3 DEF Reached, InEffect
  <1>5. e = l
    BY <1>2, <1>3, <1>4
  <1>6. curSample = e + (IF started THEN 0 ELSE 1)
    BY <1>1, <1>3, <1>5 DEF l
  <1>7. QED
    BY <1>1, <1>6, SampleIsNat DEF e, Baseline

(* As long as nothing is refused, the rows the library got are the         *)
(* waveform of what was fed, one for each sample, for any chunk and sample *)
(* size, any number of channels and any trace (srd.rs feed, finalize,      *)
(* send_constant).                                                         *)
THEOREM RowsAreTheWave == Spec => []ReplayIsTheWave
  <1>1. ASSUME IInv, ReplayInv PROVE ReplayIsTheWave
    <2> SUFFICES ASSUME trace # <<>>, refused = 0
                 PROVE  /\ Len(rows) = EffectiveSample(Len(trace)) - Baseline
                                         + (IF started THEN 0 ELSE 1)
                        /\ \A i \in DOMAIN rows :
                             /\ rows[i].at = Baseline + i - 1
                             /\ \A c \in Channel :
                                  WaveIs(rows[i].at, c, rows[i].levels[c])
      BY DEF ReplayIsTheWave, Baseline
    <2>1. /\ curSample = EffectiveSample(Len(trace)) + (IF started THEN 0 ELSE 1)
          /\ Baseline \in Nat /\ curSample \in Nat /\ trace \in Seq(Transition)
          /\ EffectiveSample(Len(trace)) \in Nat
      <3>1. trace \in Seq(Transition) /\ curSample \in Nat
        BY <1>1 DEF IInv, FedInv
      <3>2. Len(trace) \in DOMAIN trace
        BY <3>1
      <3>3. QED
        BY <1>1, <3>1, <3>2, LatestIs, EffectiveSampleIs
    <2>2. /\ Len(rows) = curSample - Baseline /\ rows \in Seq(Row)
          /\ \A i \in DOMAIN rows : rows[i].at = Baseline + i - 1
          /\ \A s \in Baseline..(curSample - 1) : Covered(trace, rows, s)
      BY <1>1 DEF ReplayInv, Dense
    <2>3. ASSUME NEW i \in DOMAIN rows, NEW c \in Channel
          PROVE  WaveIs(rows[i].at, c, rows[i].levels[c])
      <3> DEFINE s == Baseline + i - 1
      <3>1. i \in 1..Len(rows) /\ DOMAIN rows = 1..Len(rows) /\ Len(rows) \in Nat
        BY <2>2
      <3>2. rows[i].at = s /\ s \in Nat /\ s \in Baseline..(curSample - 1)
        <4>1. rows[i].at = s /\ Len(rows) = curSample - Baseline
          BY <2>2
        <4>2. QED
          BY <2>1, <3>1, <4>1
      <3>3. PICK k \in DOMAIN rows : rows[k].at = s /\ Shows(trace, s, c, rows[k].levels[c])
        BY <2>2, <3>2 DEF Covered, LastRow
      <3>4. k = i
        BY <2>1, <2>2, <3>1, <3>3
      <3>5. QED
        BY <2>1, <3>2, <3>3, <3>4, ShowsWave
    <2>4. Len(rows) = EffectiveSample(Len(trace)) - Baseline + (IF started THEN 0 ELSE 1)
      BY <2>1, <2>2
    <2>5. QED
      BY <2>2, <2>3, <2>4
  <1>2. QED
    BY <1>1, ReplayInvariance, PTL

(* A refused chunk costs no sample: the library gets each one, and the row *)
(* it got last for it shows the waveform, wherever the refusals came and   *)
(* whatever the loader fed next (srd.rs send_constant).                    *)
THEOREM RefusalsAreMadeUp == Spec => []RefusalIsMadeUp
  <1>1. ASSUME IInv, ReplayInv PROVE RefusalIsMadeUp
    <2> DEFINE I(s) == {i \in 1..Len(rows) : rows[i].at = s}
               L(s) == IF I(s) # {} THEN Max(I(s)) ELSE 0
    <2> SUFFICES ASSUME trace # <<>>
                 PROVE  /\ \A i \in DOMAIN rows :
                             rows[i].at <= IF i = 1 THEN Baseline ELSE rows[i - 1].at + 1
                        /\ \A s \in Baseline..(curSample - 1) :
                             /\ L(s) > 0
                             /\ \A c \in Channel : WaveIs(s, c, rows[L(s)].levels[c])
      BY Zenon DEF RefusalIsMadeUp, Baseline, SelectLastInSeq
    <2>1. /\ trace \in Seq(Transition) /\ curSample \in Nat /\ Baseline \in Nat
          /\ rows \in Seq(Row)
      BY <1>1, LatestIs DEF IInv, FedInv, ReplayInv
    <2>2. ASSUME NEW s \in Baseline..(curSample - 1)
          PROVE  /\ L(s) > 0
                 /\ \A c \in Channel : WaveIs(s, c, rows[L(s)].levels[c])
      <3>1. PICK i \in DOMAIN rows : /\ LastRow(rows, i, s)
                                     /\ \A c \in Channel :
                                          Shows(trace, s, c, rows[i].levels[c])
        BY <1>1 DEF ReplayInv, Covered
      <3>2. i \in 1..Len(rows) /\ DOMAIN rows = 1..Len(rows) /\ Len(rows) \in Nat
        BY <2>1
      <3>3. i \in I(s) /\ \A j \in I(s) : j <= i /\ j \in Nat
        BY <3>1, <3>2 DEF LastRow
      <3> HIDE DEF I
      <3>4. Max(I(s)) = i
        <4>1. Max(I(s)) \in I(s) /\ \A j \in I(s) : Max(I(s)) >= j
          BY <3>3 DEF Max
        <4>2. QED
          BY <3>3, <4>1
      <3>5. L(s) = i
        BY <3>3, <3>4
      <3> HIDE DEF L
      <3>6. s \in Nat
        BY <2>1
      <3>7. QED
        BY <2>1, <3>1, <3>2, <3>5, <3>6, ShowsWave
    <2>3. \A i \in DOMAIN rows :
            rows[i].at <= IF i = 1 THEN Baseline ELSE rows[i - 1].at + 1
      BY <1>1 DEF ReplayInv, NoGap
    <2>4. QED
      BY <2>2, <2>3
  <1>2. QED
    BY <1>1, ReplayInvariance, PTL
=============================================================================
