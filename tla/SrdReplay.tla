----------------------------- MODULE SrdReplay -----------------------------
(***************************************************************************)
(* One session of the libsigrokdecode backend, crates/bridge/src/srd.rs:   *)
(* how sparse transitions, stamped in femtoseconds, become the dense run   *)
(* of sample rows the library wants, and how the annotations the library   *)
(* raises meanwhile find their way out.                                    *)
(*                                                                         *)
(* A feed request carries one transition, as the shim sends it             *)
(* (registry.rs feed_blocking), with a value for each of its channels.     *)
(* The library is external: it accepts a chunk of rows or refuses it, and  *)
(* may raise an annotation, through the callback, while it works on rows   *)
(* it accepted.  A row is the levels of one sample; packing them into      *)
(* bytes is left to module ChannelPacking.                                 *)
(***************************************************************************)
EXTENDS Naturals, Sequences, FiniteSets, SequencesExt

CONSTANTS
  NumChannels,     \* width of the session's sample frame
  FedChannels,     \* channels of a fed transition, 0..FedChannels-1
  FsPerSample,     \* FS_PER_SAMPLE
  ChunkSamples,    \* SEND_CHUNK_SAMPLES
  LastFs,          \* u64::MAX, the last time there is
  MaxFs,           \* bound: latest time fed
  MaxFeeds,        \* bound: transitions fed between two finalizes
  MaxRaised,       \* bound: annotations the library raises
  MaxRefused       \* bound: chunks it refuses since the baseline

ASSUME ChannelsAssumption == NumChannels \in Nat \ {0} /\ FedChannels \in Nat
ASSUME ScaleAssumption == FsPerSample \in Nat \ {0}
ASSUME ChunkAssumption == ChunkSamples \in Nat \ {0}
ASSUME TimeAssumption == LastFs \in Nat
ASSUME ReplayBounds ==
  MaxFs \in 0..LastFs /\ MaxFeeds \in Nat /\ MaxRaised \in Nat /\ MaxRefused \in Nat

VARIABLES
  started,    \* SrdSession::started
  curSample,  \* SrdSession::cur_sample
  levels,     \* SrdSession::levels
  accum,      \* SrdSession::accum: raised, not yet drained
  rows,       \* history: rows accepted since the baseline
  trace,      \* history: transitions fed since the baseline
  refused,    \* history: chunks refused since the baseline
  raised,     \* history: annotations the library raised
  returned    \* history: annotations feed and finalize returned

vars == <<started, curSample, levels, accum, rows, trace, refused, raised,
          returned>>

Channel == 0..(NumChannels - 1)
Level == {0, 1}
BitValue == {"0", "1", "X"}
Transition == [fs : 0..MaxFs, set : [0..(FedChannels - 1) -> BitValue]]
Row == [at : Nat, levels : [Channel -> Level]]
RawAnnotation == {a \in [start : Nat, end : Nat] : a.start <= a.end}
AnnotationEvent == [start_fs : 0..LastFs, end_fs : 0..LastFs]

TypeOK ==
  /\ started \in BOOLEAN
  /\ curSample \in Nat
  /\ levels \in [Channel -> Level]
  /\ accum \in Seq(RawAnnotation)
  /\ rows \in Seq(Row)
  /\ trace \in Seq(Transition)
  /\ refused \in 0..MaxRefused
  /\ raised \in Seq(RawAnnotation)
  /\ returned \in Seq(AnnotationEvent)

Init ==
  /\ started = FALSE
  /\ curSample = 0
  /\ levels = [c \in Channel |-> 0]
  /\ accum = <<>>
  /\ rows = <<>>
  /\ trace = <<>>
  /\ refused = 0
  /\ raised = <<>>
  /\ returned = <<>>

-----------------------------------------------------------------------------
SampleOf(fs) == fs \div FsPerSample

(* Mutant: an unknown bit is kept as a third level.                        *)
XIsALevel(lv, set) ==
  [c \in Channel |-> IF c \in DOMAIN set
                     THEN CASE set[c] = "0" -> 0 [] set[c] = "1" -> 1 [] OTHER -> 2
                     ELSE lv[c]]

(* apply_changes: an indeterminate value leaves the level as it was, and a *)
(* channel outside the frame is skipped.                                   *)
ApplyChanges(lv, set) ==
  [c \in Channel |-> IF c \in DOMAIN set /\ set[c] # "X"
                     THEN IF set[c] = "1" THEN 1 ELSE 0
                     ELSE lv[c]]

(* Mutant: every chunk has the full size.                                  *)
FullChunks(from, to) ==
  [i \in 1..((to - from + ChunkSamples - 1) \div ChunkSamples) |->
     [start |-> from + (i - 1) * ChunkSamples, n |-> ChunkSamples]]

(* The chunks send_constant cuts [from, to) into.                          *)
Chunks(from, to) ==
  [i \in 1..((to - from + ChunkSamples - 1) \div ChunkSamples) |->
     LET start == from + (i - 1) * ChunkSamples
     IN [start |-> start,
         n |-> IF to - start < ChunkSamples THEN to - start ELSE ChunkSamples]]

(* The rows of one chunk, all of them at the current levels.               *)
ChunkRows(chunk) ==
  [i \in 1..chunk.n |-> [at |-> chunk.start + i - 1, levels |-> levels]]

RowsOf(chunks) == FlattenSeq([i \in DOMAIN chunks |-> ChunkRows(chunks[i])])

(* The library takes the rows, whatever numbers it had before.             *)
Record(rs) == rows' = rows \o rs

(* annotation_cb: the library raises nothing, or one annotation about what *)
(* it has seen up to sample `upTo`.                                        *)
Raise(upTo) ==
  \/ UNCHANGED raised
  \/ /\ Len(raised) < MaxRaised
     /\ \E s, e \in 0..upTo :
          s <= e /\ raised' = Append(raised, [start |-> s, end |-> e])

(* What is in the accumulator once the callback has run.                   *)
Accumulated == accum \o SubSeq(raised', Len(raised) + 1, Len(raised'))

(* Mutant: the multiplication wraps.                                       *)
WrappingFs(sample) == (sample * FsPerSample) % (LastFs + 1)

(* saturating_mul: the sample after the last one may lie beyond the axis.  *)
FsOf(sample) ==
  IF sample * FsPerSample < LastFs THEN sample * FsPerSample ELSE LastFs

(* An annotation on the femtosecond axis.                                  *)
Event(raw) == [start_fs |-> FsOf(raw.start), end_fs |-> FsOf(raw.end)]

(* drain_into: everything accumulated leaves, back in femtoseconds.        *)
DrainInto(acc) ==
  /\ returned' = returned \o [i \in DOMAIN acc |-> Event(acc[i])]
  /\ accum' = <<>>

(* Mutant: a failed send discards what the callback accumulated.           *)
SendFailsDiscarding(chunks) ==
  /\ \E k \in 0..(Len(chunks) - 1) :
       /\ Record(RowsOf(SubSeq(chunks, 1, k)))
       /\ IF k > 0 THEN Raise(chunks[k].start + chunks[k].n) ELSE UNCHANGED raised
  /\ refused < MaxRefused
  /\ refused' = refused + 1
  /\ accum' = <<>>
  /\ UNCHANGED <<started, curSample, levels, returned>>

(* Mutant: cur_sample moves although the run was not sent to its end.      *)
SendFailsAdvancing(chunks) ==
  /\ \E k \in 0..(Len(chunks) - 1) :
       /\ Record(RowsOf(SubSeq(chunks, 1, k)))
       /\ IF k > 0 THEN Raise(chunks[k].start + chunks[k].n) ELSE UNCHANGED raised
  /\ refused < MaxRefused
  /\ refused' = refused + 1
  /\ accum' = Accumulated
  /\ curSample' = chunks[Len(chunks)].start + chunks[Len(chunks)].n
  /\ UNCHANGED <<started, levels, returned>>

(* The library refuses a chunk: those before it are accepted, the error    *)
(* leaves the handler at once, and nothing else of the session changes.    *)
SendFails(chunks) ==
  /\ \E k \in 0..(Len(chunks) - 1) :
       /\ Record(RowsOf(SubSeq(chunks, 1, k)))
       /\ IF k > 0 THEN Raise(chunks[k].start + chunks[k].n) ELSE UNCHANGED raised
  /\ refused < MaxRefused
  /\ refused' = refused + 1
  /\ accum' = Accumulated
  /\ UNCHANGED <<started, curSample, levels, returned>>

-----------------------------------------------------------------------------
(* feed, first transition: seeds the baseline, sends nothing.              *)
FeedFirst(tr) ==
  /\ ~started
  /\ levels' = ApplyChanges(levels, tr.set)
  /\ curSample' = SampleOf(tr.fs)
  /\ started' = TRUE
  /\ DrainInto(accum)
  /\ rows' = <<>>
  /\ trace' = <<tr>>
  /\ refused' = 0
  /\ UNCHANGED raised

(* Mutant: cur_sample is not advanced after the send.                      *)
FeedWithoutAdvance(tr) ==
  /\ started
  /\ Len(trace) < MaxFeeds
  /\ SampleOf(tr.fs) > curSample
  /\ LET chunks == Chunks(curSample, SampleOf(tr.fs))
     IN \/ /\ Record(RowsOf(chunks))
           /\ Raise(SampleOf(tr.fs))
           /\ levels' = ApplyChanges(levels, tr.set)
           /\ DrainInto(Accumulated)
           /\ trace' = Append(trace, tr)
           /\ UNCHANGED <<started, curSample, refused>>
        \/ SendFails(chunks) /\ UNCHANGED trace

(* feed, later: the levels held since cur_sample go out as rows up to the  *)
(* transition's sample, then the changes apply.                            *)
FeedAdvance(tr) ==
  /\ started
  /\ Len(trace) < MaxFeeds
  /\ SampleOf(tr.fs) > curSample
  /\ LET chunks == Chunks(curSample, SampleOf(tr.fs))
     IN \/ /\ Record(RowsOf(chunks))
           /\ Raise(SampleOf(tr.fs))
           /\ curSample' = SampleOf(tr.fs)
           /\ levels' = ApplyChanges(levels, tr.set)
           /\ DrainInto(Accumulated)
           /\ trace' = Append(trace, tr)
           /\ UNCHANGED <<started, refused>>
        \/ SendFails(chunks) /\ UNCHANGED trace

(* feed, within the current sample or before it: the changes merge into    *)
(* the current levels.                                                     *)
FeedMerge(tr) ==
  /\ started
  /\ Len(trace) < MaxFeeds
  /\ SampleOf(tr.fs) <= curSample
  /\ levels' = ApplyChanges(levels, tr.set)
  /\ DrainInto(accum)
  /\ trace' = Append(trace, tr)
  /\ UNCHANGED <<started, curSample, rows, refused, raised>>

(* finalize: the last levels go out as one row, the library is reset (and  *)
(* may raise a last annotation), and the next feed is a first one again.   *)
FinalizeStarted ==
  /\ started
  /\ LET chunks == Chunks(curSample, curSample + 1)
     IN \/ /\ Record(RowsOf(chunks))
           /\ Raise(curSample + 1)
           /\ curSample' = curSample + 1
           /\ started' = FALSE
           /\ DrainInto(Accumulated)
           /\ UNCHANGED <<levels, refused>>
        \/ SendFails(chunks)
  /\ UNCHANGED trace

(* finalize again, or before any feed.                                     *)
FinalizeIdle ==
  /\ ~started
  /\ DrainInto(accum)
  /\ UNCHANGED <<started, curSample, levels, rows, trace, refused, raised>>

Feed(tr) == FeedFirst(tr) \/ FeedAdvance(tr) \/ FeedMerge(tr)
Finalize == FinalizeStarted \/ FinalizeIdle

Next == (\E tr \in Transition : Feed(tr)) \/ Finalize

Spec == Init /\ [][Next]_vars

-----------------------------------------------------------------------------
(* Properties.                                                             *)

(* The sample a transition takes effect at: its own, or the latest sample  *)
(* reached by then if time runs backwards.                                 *)
EffectiveSample(i) ==
  CHOOSE m \in {SampleOf(trace[j].fs) : j \in 1..i} :
    \A j \in 1..i : SampleOf(trace[j].fs) <= m

(* The waveform the transitions describe, read independently of how it is  *)
(* replayed: channel c at sample s has the last determinate value given by *)
(* a transition in effect by then, if any gave it one.                     *)
Deciding(s, c) ==
  {i \in DOMAIN trace : /\ EffectiveSample(i) <= s
                        /\ c \in DOMAIN trace[i].set
                        /\ trace[i].set[c] # "X"}

WaveIs(s, c, v) ==
  Deciding(s, c) # {} =>
    LET last == CHOOSE i \in Deciding(s, c) : \A j \in Deciding(s, c) : j <= i
    IN v = IF trace[last].set[c] = "1" THEN 1 ELSE 0

(* The replay is the waveform (srd.rs, "How transitions become samples"):  *)
(* as long as the library refuses nothing, the rows it got are one for     *)
(* each sample from the first transition to the latest, and a single one   *)
(* more after finalize, without gap or repetition, whatever the chunking   *)
(* and however often a call was retried; each row shows the waveform at    *)
(* that sample.                                                            *)
ReplayIsTheWave ==
  trace # <<>> /\ refused = 0 =>
    LET first == SampleOf(trace[1].fs)
        last == EffectiveSample(Len(trace))
    IN /\ Len(rows) = last - first + (IF started THEN 0 ELSE 1)
       /\ \A i \in DOMAIN rows :
            /\ rows[i].at = first + i - 1
            /\ \A c \in Channel : WaveIs(rows[i].at, c, rows[i].levels[c])

(* After a refused chunk the run is sent again from its start by the next  *)
(* call (send_constant leaves cur_sample alone), so the library gets some  *)
(* samples more than once, but never skips one; and of each sample up to   *)
(* cur_sample, the row it got last shows the waveform of the transitions   *)
(* that were accepted, also when the refused one is never fed again.       *)
RefusalIsMadeUp ==
  trace # <<>> =>
    LET first == SampleOf(trace[1].fs)
        LastRowOf(s) == SelectLastInSeq(rows, LAMBDA row : row.at = s)
    IN /\ \A i \in DOMAIN rows :
            rows[i].at <= IF i = 1 THEN first ELSE rows[i - 1].at + 1
       /\ \A s \in first..(curSample - 1) :
            /\ LastRowOf(s) > 0
            /\ \A c \in Channel : WaveIs(s, c, rows[LastRowOf(s)].levels[c])

(* Every annotation the library raised is returned once, in order and at   *)
(* the same place on the femtosecond axis, or still waits for the next     *)
(* call: also when the call during which it was raised failed.  None ends  *)
(* before it starts, at the end of the axis neither.                       *)
NothingDropped ==
  /\ returned \o [i \in DOMAIN accum |-> Event(accum[i])]
       = [i \in DOMAIN raised |-> Event(raised[i])]
  /\ \A i \in DOMAIN returned : returned[i].start_fs <= returned[i].end_fs

(* Feeding the transition last fed once more sends nothing and changes no  *)
(* level, so the loader's retry with more slots, which makes the shim send *)
(* the same sample again (registry.rs feed, take_up_to), is harmless.      *)
RetryIsHarmless ==
  [][/\ started /\ started'
     /\ Len(trace') = Len(trace) + 1
     /\ trace'[Len(trace')] = trace[Len(trace)]
     => UNCHANGED <<curSample, levels, rows>>]_vars
=============================================================================
