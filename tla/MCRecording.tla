---------------------------- MODULE MCRecording -----------------------------
(***************************************************************************)
(* A recording and its audio, for TLC: the recordings of a guild and the   *)
(* stops that overlap (RecordingLifecycle), the frames of a session        *)
(* (RecordingSession), the queue of live transcription (LiveOutbox), the   *)
(* mixdown (Mixdown) and the final transcription with the speaker files    *)
(* (MeetingAudio). A behaviour is one of a single instance, named by part; *)
(* the others rest in their initial state, so that the state spaces add up *)
(* and do not multiply.                                                    *)
(***************************************************************************)
EXTENDS RecordingLifecycle, Integers, Sequences, FiniteSets, TLC

CONSTANTS
  Nothing

VARIABLES
  part,
  clock, tracker, buffer, perUserSeq, pending, queue, acks, files, staged, accepted,
  lostSession, trimmed, doubled, phase, faultsSession,
  statusOutbox, flushed, jobOutbox, due, audio, pendingOutbox, row, live, finalText,
  active, recoveryOutbox, gateway, disp, closing, task, faultsOutbox,
  dir, asked, phaseMixdown, clusters, at, core, written, partMixdown, mixdown, triesMixdown,
  dirFinal, rows, backend, mapped, askedFinal, phaseFinal, manifest, done, todo, ends,
  inputs, heard, metered, stored, stagedFinal, speakers, triesFinal

(* The chunks of the mixdown, and up to three of them in a directory.      *)
MixChunk(starts, lengths, rate, valid) ==
  [start : starts, len : lengths, rate : {rate}, valid : {valid}]
UpToThree(S) == {{c, d, e} : c, d, e \in S}

(* All at the full rate; or a few with a chunk of another rate or no WAV.  *)
FullRateDirectories == UpToThree(MixChunk({0, 1, 2, 6, 9, 14}, {1, 2, 5, 8, 13}, 3, TRUE))
OddDirectories ==
  LET Of(rate, valid) == MixChunk({0, 1, 7, 9}, {1, 2, 4, 8}, rate, valid)
  IN  {{c, d} : c \in Of(3, TRUE), d \in Of(2, TRUE) \union Of(3, FALSE)}
        \union UpToThree(Of(2, TRUE)) \union {{c} : c \in Of(3, FALSE)}

(* WAV files of n samples, and what a damaged one may look like.           *)
WavOf(n) == [form |-> TRUE, riff |-> 36 + 2 * n, data |-> 2 * n, file |-> 44 + 2 * n]
Damaged(w) ==
  {[w EXCEPT !.form = FALSE], [w EXCEPT !.file = @ - 2], [w EXCEPT !.file = 20],
   [w EXCEPT !.riff = @ + 2], [w EXCEPT !.riff = @ - 2],
   [w EXCEPT !.data = 0], [w EXCEPT !.data = @ + 2], [w EXCEPT !.data = @ - 1], WavOf(11)}

(* The files of a user and of the stream that is the user's too.           *)
FileAt(seq, starts, rates, wavs) ==
  [name : {"u1", "ssrc"}, seq : {seq}, start : starts, rate : rates, wav : wavs]
ThreeFiles ==
  LET At(seq) == FileAt(seq, {1, 2}, {3}, {WavOf(3), WavOf(7)})
  IN  {{c, d, e} : c \in At(1), d \in At(2), e \in At(3)}
DamagedFiles(rates) ==
  LET At(seq, rs) == FileAt(seq, {1, 4}, rs, {WavOf(2), WavOf(6)})
      Bad(seq) == FileAt(seq, {1, 4}, {3}, Damaged(WavOf(2)) \union Damaged(WavOf(6)))
  IN  {{c, d} : c \in At(1, {3}), d \in At(2, rates) \union Bad(2)}
        \union {{c} : c \in Bad(1)}
StreamOf == [n \in {"ssrc"} |-> "u1"]

(* A user who rejoins under another SSRC, failed writes and a full       *)
(* writer.                                                               *)
Rejoin == INSTANCE RecordingSession WITH
  Ssrc <- {1, 2}, Owner <- <<11, 11>>, Ticks <- 3, MaxBuffer <- 2, MaxTasks <- 2,
  MaxBytes <- 2, MaxPending <- 1, MaxFaults <- 1,
  lost <- lostSession, faults <- faultsSession

(* The same with two failures: a save that fails, and then the removal   *)
(* of what it left.                                                      *)
Restaged == INSTANCE RecordingSession WITH
  Ssrc <- {1, 2}, Owner <- <<11, 11>>, Ticks <- 2, MaxBuffer <- 2, MaxTasks <- 2,
  MaxBytes <- 2, MaxPending <- 1, MaxFaults <- 2,
  lost <- lostSession, faults <- faultsSession

(* Two users whose SSRC becomes known late.                              *)
TwoUsers == INSTANCE RecordingSession WITH
  Ssrc <- {1, 2}, Owner <- <<11, 12>>, Ticks <- 2, MaxBuffer <- 2, MaxTasks <- 2,
  MaxBytes <- 2, MaxPending <- 1, MaxFaults <- 1,
  lost <- lostSession, faults <- faultsSession

(* Two chunks of one meeting, two clients and a failure anywhere.        *)
Outbox == INSTANCE LiveOutbox WITH
  Chunk <- 1 .. 2, Silent <- {}, Meeting <- {"m1"}, MeetingOf <- <<"m1", "m1">>,
  SummaryEnabled <- [m \in {"m1"} |-> TRUE], Gateways <- 2, MaxFaults <- 1,
  status <- statusOutbox, job <- jobOutbox, pending <- pendingOutbox,
  recovery <- recoveryOutbox, faults <- faultsOutbox

(* A chunk of speech, and a silent one of a meeting without a summary.   *)
Quiet == INSTANCE LiveOutbox WITH
  Chunk <- 1 .. 2, Silent <- {2}, Meeting <- {"m1", "m2"}, MeetingOf <- <<"m1", "m2">>,
  SummaryEnabled <- [m \in {"m1", "m2"} |-> m = "m1"], Gateways <- 1, MaxFaults <- 1,
  status <- statusOutbox, job <- jobOutbox, pending <- pendingOutbox,
  recovery <- recoveryOutbox, faults <- faultsOutbox

(* Every directory of up to three chunks at the full rate.               *)
Mix == INSTANCE Mixdown WITH
  Directories <- FullRateDirectories, FullRate <- 3, MsPerSecond <- 2, MaxSpan <- 12,
  MaxChunks <- 3, Taps <- 5, Window <- 6, MaxSamples <- 100, MaxTries <- 1, None <- Nothing,
  phase <- phaseMixdown, part <- partMixdown, tries <- triesMixdown

(* Chunks of another rate, chunks that are no WAV, limits, and a second  *)
(* attempt.                                                              *)
OddMix == INSTANCE Mixdown WITH
  Directories <- OddDirectories, FullRate <- 3, MsPerSecond <- 2, MaxSpan <- 8,
  MaxChunks <- 2, Taps <- 3, Window <- 3, MaxSamples <- 9, MaxTries <- 2, None <- Nothing,
  phase <- phaseMixdown, part <- partMixdown, tries <- triesMixdown

(* A meeting without chunks, for the behaviours of the other parts.      *)
NoMix == INSTANCE Mixdown WITH
  Directories <- {{}}, FullRate <- 3, MsPerSecond <- 2, MaxSpan <- 8, MaxChunks <- 2,
  Taps <- 3, Window <- 3, MaxSamples <- 9, MaxTries <- 2, None <- Nothing,
  phase <- phaseMixdown, part <- partMixdown, tries <- triesMixdown

(* Three overlapping chunks of a user and of an SSRC of the same user,   *)
(* from the object store.                                                *)
Final == INSTANCE MeetingAudio WITH
  Directories <- ThreeFiles, Backend <- {"s3"}, Asked <- {TRUE}, UserOf <- StreamOf,
  FullRate <- 3, MaxChunks <- 3, MaxInput <- 40, MaxSpan <- 9, MaxFile <- 20,
  MaxSpeakers <- 2, MaxStitched <- 40, Faults <- FALSE, MaxTries <- 1, None <- Nothing,
  dir <- dirFinal, asked <- askedFinal, phase <- phaseFinal, staged <- stagedFinal,
  tries <- triesFinal

(* Damaged files, limits, failures and a second attempt, from the object *)
(* store.                                                                *)
Damage == INSTANCE MeetingAudio WITH
  Directories <- DamagedFiles({3}), Backend <- {"s3"}, Asked <- {TRUE}, UserOf <- StreamOf,
  FullRate <- 3, MaxChunks <- 2, MaxInput <- 11, MaxSpan <- 9, MaxFile <- 20,
  MaxSpeakers <- 1, MaxStitched <- 10, Faults <- TRUE, MaxTries <- 2, None <- Nothing,
  dir <- dirFinal, asked <- askedFinal, phase <- phaseFinal, staged <- stagedFinal,
  tries <- triesFinal

(* The same from local files, in which a second rate may be brought      *)
(* down.                                                                 *)
Local == INSTANCE MeetingAudio WITH
  Directories <- DamagedFiles({2, 3}), Backend <- {"local"}, Asked <- BOOLEAN,
  UserOf <- StreamOf, FullRate <- 3, MaxChunks <- 2, MaxInput <- 11, MaxSpan <- 9,
  MaxFile <- 20, MaxSpeakers <- 1, MaxStitched <- 10, Faults <- TRUE, MaxTries <- 1,
  None <- Nothing,
  dir <- dirFinal, asked <- askedFinal, phase <- phaseFinal, staged <- stagedFinal,
  tries <- triesFinal

(* A meeting without chunks, for the behaviours of the other parts.      *)
NoFinal == INSTANCE MeetingAudio WITH
  Directories <- {{}}, Backend <- {"s3"}, Asked <- {TRUE}, UserOf <- StreamOf,
  FullRate <- 3, MaxChunks <- 2, MaxInput <- 11, MaxSpan <- 9, MaxFile <- 20,
  MaxSpeakers <- 1, MaxStitched <- 10, Faults <- TRUE, MaxTries <- 1, None <- Nothing,
  dir <- dirFinal, asked <- askedFinal, phase <- phaseFinal, staged <- stagedFinal,
  tries <- triesFinal

ASSUME
  /\ Rejoin!SsrcAssumption /\ Rejoin!BoundAssumption
  /\ Restaged!SsrcAssumption /\ Restaged!BoundAssumption
  /\ TwoUsers!SsrcAssumption /\ TwoUsers!BoundAssumption
  /\ Outbox!ChunkAssumption /\ Outbox!MeetingAssumption /\ Outbox!BoundAssumption
  /\ Quiet!ChunkAssumption /\ Quiet!MeetingAssumption /\ Quiet!BoundAssumption
  /\ Mix!MixdownAssumption
  /\ OddMix!MixdownAssumption

sessionVars ==
  <<clock, tracker, buffer, perUserSeq, pending, queue, acks, files, staged, accepted,
    lostSession, trimmed, doubled, phase, faultsSession>>
outboxVars ==
  <<statusOutbox, flushed, jobOutbox, due, audio, pendingOutbox, row, live, finalText,
    active, recoveryOutbox, gateway, disp, closing, task, faultsOutbox>>
mixdownVars ==
  <<dir, asked, phaseMixdown, clusters, at, core, written, partMixdown, mixdown,
    triesMixdown>>
finalVars ==
  <<dirFinal, rows, backend, mapped, askedFinal, phaseFinal, manifest, done, todo, ends,
    inputs, heard, metered, stored, stagedFinal, speakers, triesFinal>>
RecordingVars == <<part, vars, sessionVars, outboxVars, mixdownVars, finalVars>>

RecordingInit ==
  /\ part \in {"guild", "rejoin", "restaged", "users", "outbox", "quiet", "mix", "odd_mix",
               "final", "damage", "local"}
  /\ Init
  /\ CASE part = "rejoin" -> Rejoin!Init
       [] part = "restaged" -> Restaged!Init
       [] OTHER -> TwoUsers!Init
  /\ IF part = "outbox" THEN Outbox!Init ELSE Quiet!Init
  /\ CASE part = "mix" -> Mix!Init
       [] part = "odd_mix" -> OddMix!Init
       [] OTHER -> NoMix!Init
  /\ part \notin {"mix", "odd_mix"} => asked
  /\ CASE part = "final" -> Final!Init
       [] part = "damage" -> Damage!Init
       [] part = "local" -> Local!Init
       [] OTHER -> NoFinal!Init
  /\ part \notin {"final", "damage", "local"} => mapped

RecordingNext ==
  /\ UNCHANGED part
  /\ \/ /\ part = "guild" /\ Next
        /\ UNCHANGED <<sessionVars, outboxVars, mixdownVars, finalVars>>
     \/ /\ \/ part = "rejoin" /\ Rejoin!Next
           \/ part = "restaged" /\ Restaged!Next
           \/ part = "users" /\ TwoUsers!Next
        /\ UNCHANGED <<vars, outboxVars, mixdownVars, finalVars>>
     \/ /\ \/ part = "outbox" /\ Outbox!Next
           \/ part = "quiet" /\ Quiet!Next
        /\ UNCHANGED <<vars, sessionVars, mixdownVars, finalVars>>
     \/ /\ \/ part = "mix" /\ Mix!Next
           \/ part = "odd_mix" /\ OddMix!Next
        /\ UNCHANGED <<vars, sessionVars, outboxVars, finalVars>>
     \/ /\ \/ part = "final" /\ Final!Next
           \/ part = "damage" /\ Damage!Next
           \/ part = "local" /\ Local!Next
        /\ UNCHANGED <<vars, sessionVars, outboxVars, mixdownVars>>

RecordingSpec == RecordingInit /\ [][RecordingNext]_RecordingVars

(* Every frame the receiver accepted is in a buffer, in a chunk on its way *)
(* or in a file, in two of them only if the earlier copy could not be      *)
(* removed, or it is counted as lost, or was trimmed or skipped with a     *)
(* warning, although writes fail, are retried under another name and are   *)
(* superseded; the writer keeps its limits; and a frame is stored under    *)
(* the user it came from, although the SSRC is resolved late. What of it   *)
(* is transcribed, live or in the end, is in the final transcript once.    *)
FramesAccounted ==
  /\ part = "rejoin"
       => Rejoin!TypeOK /\ Rejoin!FramesAccounted /\ Rejoin!FramesStoredOnce /\
          Rejoin!WriterBounded
  /\ part = "restaged"
       => Restaged!TypeOK /\ Restaged!FramesAccounted /\ Restaged!FramesStoredOnce /\
          Restaged!WriterBounded
  /\ part = "users"
       => TwoUsers!TypeOK /\ TwoUsers!FramesAccounted /\ TwoUsers!RightSpeaker
  /\ part = "outbox" => Outbox!SpeechOnce
  /\ part = "quiet" => Quiet!SpeechOnce

(* The mixdown, written cluster by cluster and window by window, is the    *)
(* sum of the chunks resampled as a whole: no window border can be heard;  *)
(* and a playback file is whole or absent, whatever attempt failed. The    *)
(* final transcription hears every sample of every readable chunk that     *)
(* live transcription has not done, and none of a speaker twice although   *)
(* chunks overlap; it is metered as heard; the manifest names only files   *)
(* that can be read; and the speaker files play each chunk of the speaker  *)
(* at its time.                                                            *)
AudioExact ==
  /\ part = "mix" => Mix!WindowsUnseen /\ Mix!PlaybackWhole
  /\ part = "odd_mix" => OddMix!WindowsUnseen /\ OddMix!PlaybackWhole
  /\ part = "final"
       => Final!NotTwice /\ Final!AllHeard /\ Final!MeteredAsHeard /\
          Final!SpeakersPlayable
  /\ part = "damage"
       => Damage!ManifestReadable /\ Damage!NotTwice /\ Damage!AllHeard /\
          Damage!MeteredAsHeard /\ Damage!SpeakersPlayable
  /\ part = "local" => Local!ManifestReadable /\ Local!AllHeard

(* The two stops are alike.                                               *)
Symmetry == Permutations(Stopper)
=============================================================================
