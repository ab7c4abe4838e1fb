------------------------------ MODULE Mixdown ------------------------------
(***************************************************************************)
(* mixdown.wav: the chunks of a meeting, each at its place in the meeting, *)
(* mixed into one file and brought to a third of the rate if that is asked *)
(* for.  The chunks are gathered into clusters, a cluster is mixed window  *)
(* by window, each window read with a halo for the filter, and the file is *)
(* written beside the playback copy and renamed when it is complete.       *)
(*                                                                         *)
(* A sample of the timeline is the set of the samples mixed into it, each  *)
(* <<chunk, index>>; a sample of the file is what the filter saw: the      *)
(* samples of the timeline at the distances in Reach.  Adding up, the      *)
(* filter's arithmetic and clamping are left out.                          *)
(***************************************************************************)
EXTENDS Integers, FiniteSets, SequencesExt

CONSTANTS
  Directories,  \* the sets of chunk files a meeting may have
  FullRate,     \* 48_000, the one rate the filter is made for
  MsPerSecond,  \* 1_000
  MaxSpan,      \* MAX_MEETING_AUDIO_SPAN_MS
  MaxChunks,    \* MAX_MEETING_AUDIO_CHUNKS
  Taps,         \* RESAMPLE_FIR_TAPS
  Window,       \* STREAM_MIXDOWN_WINDOW_SAMPLES
  MaxSamples,   \* the samples whose size a WAV header can hold
  MaxTries,     \* bound on the attempts
  None

MixdownAssumption ==
  /\ MsPerSecond \in Nat \ {0} /\ Window \in Nat \ {0}
  /\ Taps % 2 = 1

VARIABLES
  dir,      \* the chunk files: [start, len, rate, valid]
  asked,    \* whisper_resample_to_16k
  phase,    \* where merge_user_chunks_to_mixdown is
  clusters, \* stream_mixdown_clusters, its local value
  at,       \* the cluster it writes
  core,     \* core_start, or -1 before the silence in front of the cluster
  written,  \* out_samples_written
  part,     \* mixdown.wav.part: [header, data], or None
  mixdown,  \* mixdown.wav
  tries

vars == <<dir, asked, phase, clusters, at, core, written, part, mixdown, tries>>

Monus(a, b) == IF a > b THEN a - b ELSE 0
Least(S) == CHOOSE x \in S : \A y \in S : x <= y
Greatest(S) == CHOOSE x \in S : \A y \in S : x >= y

-----------------------------------------------------------------------------
(* Chunks on the timeline.                                                 *)

(* Files that are not a WAV of the expected form are skipped.              *)
Manifest == {c \in dir : c.valid}
ScanFails == Manifest = {} \/ Cardinality(Manifest) > MaxChunks
MixedRates == \E c, d \in Manifest : c.rate # d.rate
SampleRate == (CHOOSE c \in Manifest : TRUE).rate

(* A start of 0 is an unknown one, and counts only if there is no other.   *)
MeetingStart ==
  LET starts == {c.start : c \in Manifest}
  IN Least(IF starts = {0} THEN starts ELSE starts \ {0})

Samples(ms) == (ms * SampleRate) \div MsPerSecond
CapSamples == Samples(MaxSpan)
OffsetMs(c) == Monus(c.start, MeetingStart)
Offset(c) == Samples(OffsetMs(c))
Usable(c) == Least({c.len, Monus(CapSamples, Offset(c))})
Placed ==
  {[chunk |-> c, from |-> Offset(c), end |-> Offset(c) + Usable(c)] :
    c \in {d \in Manifest : OffsetMs(d) <= MaxSpan /\ Usable(d) > 0}}

NewCluster(p) == [start |-> p.from, end |-> p.end, placed |-> {p}]
Joins(list, p) == list # <<>> /\ Monus(p.from, list[Len(list)].end) < 2 * Taps

(* Mutant: a cluster ends where its last chunk does.                       *)
MutAddToClusters(list, p) ==
  IF Joins(list, p)
  THEN [list EXCEPT ![Len(list)].end = p.end, ![Len(list)].placed = @ \union {p}]
  ELSE Append(list, NewCluster(p))

AddToClusters(list, p) ==
  IF Joins(list, p)
  THEN [list EXCEPT ![Len(list)].end = Greatest({@, p.end}),
                    ![Len(list)].placed = @ \union {p}]
  ELSE Append(list, NewCluster(p))

Clusters ==
  FoldLeft(AddToClusters, <<>>, SetToSortSeq(Placed, LAMBDA p, q : p.from < q.from))

(* The samples from..to - 1 of a cluster.                                  *)
MixWindow(cluster, from, to) ==
  [i \in 1 .. to - from |->
    LET t == cluster.start + from + i - 1
    IN {<<p.chunk, t - p.from>> : p \in {q \in cluster.placed : q.from <= t /\ t < q.end}}]

-----------------------------------------------------------------------------
(* The filter, which keeps every third sample.                             *)

Resampled == asked /\ SampleRate = FullRate
Step == IF Resampled THEN 3 ELSE 1
Half == (Taps - 1) \div 2
Reach == IF Resampled THEN -Half .. Half ELSE {0}
Silence == [d \in Reach |-> {}]

AsIs(pcm) == [i \in 1 .. Len(pcm) |-> [d \in {0} |-> pcm[i]]]

(* Fewer than three samples come back as they are.                         *)
Resample(pcm) ==
  IF ~Resampled \/ Len(pcm) < 3 THEN AsIs(pcm)
  ELSE [i \in 1 .. Len(pcm) \div 3 |->
         [d \in Reach |-> LET k == 3 * (i - 1) + d + 1
                          IN IF k \in 1 .. Len(pcm) THEN pcm[k] ELSE {}]]

(* Such a remainder is decimated without the filter.                       *)
Decimate(pcm) == [i \in 1 .. Len(pcm) \div 3 |-> AsIs(pcm)[3 * (i - 1) + 1]]

Up3(n) == (n + 2) \div 3

(* A window is read with the filter's reach on either side, from a sample  *)
(* the filter keeps.                                                       *)
ReadRange(from, to, span) ==
  IF ~Resampled THEN <<from, to>>
  ELSE LET start == Monus(from, Half)
       IN <<start - (start % 3), Least({3 * Up3(Least({to + Half, span})), span})>>

(* The part of a window that is written.                                   *)
WindowOutput(cluster, from, to) ==
  LET span == cluster.end - cluster.start
      read == ReadRange(from, to, span)
      out == Resample(MixWindow(cluster, read[1], read[2]))
      first == Least({Monus(Up3(from), read[1] \div 3), Len(out)})
      end == Least({Monus(Least({Up3(to), span \div 3}), read[1] \div 3), Len(out)})
  IN IF Resampled THEN SubSeq(out, first + 1, end) ELSE out

-----------------------------------------------------------------------------
(* merge_user_chunks_to_mixdown.                                           *)

Init ==
  /\ dir \in Directories /\ asked \in BOOLEAN
  /\ phase = "idle" /\ clusters = <<>> /\ at = 1 /\ core = -1 /\ written = 0
  /\ part = None /\ mixdown = None /\ tries = 0

OutStart(cluster) == cluster.start \div Step
Planned(list) ==
  Greatest({0} \union {OutStart(cl) + ((cl.end - cl.start) \div Step) : cl \in ToSet(list)})

EmptyFile == [header |-> 0, data |-> <<>>]

(* An error drops the unfinished file.                                     *)
Fail == phase' = "failed" /\ part' = None

Begin ==
  /\ phase \in {"idle", "failed"} /\ tries < MaxTries
  /\ tries' = tries + 1
  /\ at' = 1 /\ core' = -1 /\ written' = 0
  /\ clusters' = IF ScanFails \/ MixedRates THEN <<>> ELSE Clusters
  /\ IF ScanFails \/ MixedRates \/ Planned(clusters') > MaxSamples
     THEN phase' = "failed" /\ UNCHANGED part
     ELSE phase' = "writing" /\ part' = EmptyFile
  /\ UNCHANGED <<dir, asked, mixdown>>

NextCluster == at' = at + 1 /\ core' = -1

(* Silence up to the cluster.  One too short for the filter is written as  *)
(* a whole.                                                                *)
WriteSilence ==
  /\ phase = "writing" /\ at <= Len(clusters) /\ core = -1
  /\ LET cluster == clusters[at]
         span == cluster.end - cluster.start
         short == Resampled /\ span < 3
         rest == IF short THEN Decimate(MixWindow(cluster, 0, span)) ELSE <<>>
         gap == [i \in 1 .. Monus(OutStart(cluster), written) |-> Silence]
     IN /\ part' = [part EXCEPT !.data = @ \o gap \o rest]
        /\ written' = IF short THEN Greatest({written, OutStart(cluster) + Len(rest)})
                               ELSE written
        /\ IF short THEN NextCluster ELSE core' = 0 /\ UNCHANGED at
  /\ UNCHANGED <<dir, asked, phase, clusters, mixdown, tries>>

WriteWindow ==
  /\ phase = "writing" /\ core # -1
  /\ LET cluster == clusters[at]
         to == Least({core + Window, cluster.end - cluster.start})
         out == WindowOutput(cluster, core, to)
         offset == IF Resampled THEN Up3(core) ELSE core
     IN /\ part' = [part EXCEPT !.data = @ \o out]
        /\ written' = Greatest({written, OutStart(cluster) + offset + Len(out)})
        /\ IF to = cluster.end - cluster.start THEN NextCluster
           ELSE core' = to /\ UNCHANGED at
  /\ UNCHANGED <<dir, asked, phase, clusters, mixdown, tries>>

Finished == phase = "writing" /\ at > Len(clusters)

(* The size in the header is known only now.                               *)
PatchHeader ==
  /\ Finished
  /\ IF written > MaxSamples THEN Fail
     ELSE phase' = "patched" /\ part' = [part EXCEPT !.header = written]
  /\ UNCHANGED <<dir, asked, clusters, at, core, written, mixdown, tries>>

Rename ==
  /\ phase = "patched"
  /\ mixdown' = part /\ part' = None /\ phase' = "done"
  /\ UNCHANGED <<dir, asked, clusters, at, core, written, tries>>

(* Reading a chunk, writing or renaming fails.                             *)
IoError ==
  /\ phase \in {"writing", "patched"} /\ Fail
  /\ UNCHANGED <<dir, asked, clusters, at, core, written, mixdown, tries>>

(* The process dies: the unfinished file stays behind.                     *)
Crash ==
  /\ phase \in {"writing", "patched"} /\ phase' = "idle"
  /\ UNCHANGED <<dir, asked, clusters, at, core, written, part, mixdown, tries>>

(* The artifacts are built again by a later attempt of the job.            *)
Again ==
  /\ phase = "done" /\ tries < MaxTries /\ phase' = "idle"
  /\ UNCHANGED <<dir, asked, clusters, at, core, written, part, mixdown, tries>>

Next ==
  \/ Begin \/ WriteSilence \/ WriteWindow \/ PatchHeader \/ Rename
  \/ IoError \/ Crash \/ Again

Spec == Init /\ [][Next]_vars

-----------------------------------------------------------------------------
(* What the file should be, from the timeline of the whole meeting: no     *)
(* clusters that are grown, no windows.                                    *)

Timeline ==
  LET placed == {[chunk |-> c, from |-> Offset(c)] : c \in Manifest}
  IN [t \in 0 .. CapSamples - 1 |->
       {<<p.chunk, t - p.from>> : p \in {q \in placed : q.from <= t /\ t < q.from + q.chunk.len}}]

(* A stretch begins where nothing is heard for twice the filter's length.  *)
Starts(sounding) ==
  {t \in sounding : \A back \in 1 .. 2 * Taps : t - back \notin sounding}
EndOf(s, sounding) ==
  1 + Greatest({t \in sounding : t >= s /\ ~\E u \in Starts(sounding) : s < u /\ u <= t})

Expected ==
  LET line == Timeline
      sounding == {t \in DOMAIN line : line[t] # {}}
      heard == {[start |-> s, from |-> s \div Step,
                 end |-> (s \div Step) + ((EndOf(s, sounding) - s) \div Step)] :
                  s \in Starts(sounding)}
      Seen(t) == [d \in Reach |-> IF t + d \in sounding THEN line[t + d] ELSE {}]
  IN [p \in 1 .. Greatest({0} \union {h.end : h \in heard}) |->
       IF \E h \in heard : h.from < p /\ p <= h.end
       THEN LET h == CHOOSE h \in heard : h.from < p /\ p <= h.end
            IN Seen(h.start + Step * (p - 1 - h.from))
       ELSE Silence]

(* Mixing by clusters and windows is no different from mixing the meeting  *)
(* as a whole: every sample of the file is, so far, the one the filter     *)
(* gives on the whole timeline, at the time at which it was spoken.        *)
WindowsUnseen ==
  phase \in {"writing", "patched"} =>
    IsPrefix(part.data, Expected)

(* What is served as mixdown.wav is at every moment a whole one, whatever  *)
(* fails or dies: all of the meeting, with a header that says its size.    *)
PlaybackWhole ==
  mixdown # None => mixdown.header = Len(mixdown.data) /\ mixdown.data = Expected
=============================================================================
