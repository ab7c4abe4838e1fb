---------------------------- MODULE MeetingAudio ----------------------------
(***************************************************************************)
(* From the chunk files of a meeting to what is transcribed and what is    *)
(* played.  A chunk file is named for its speaker, or for the stream       *)
(* (SSRC) while the speaker is not known; ssrc_mapping.json names the      *)
(* speakers learned later.  Chunks that live transcription is done with    *)
(* are left out of the final transcription, the others are handed over     *)
(* one by one, without what the same speaker's chunks before them hold     *)
(* already.  For playback every speaker's chunks are stitched into one     *)
(* file, staged in a directory of its own and then renamed.                *)
(*                                                                         *)
(* Times are milliseconds, lengths samples, and a rate is the whole number *)
(* of samples in a millisecond.  A sample is <<chunk, index>>.             *)
(***************************************************************************)
EXTENDS Integers, FiniteSets, SequencesExt

CONSTANTS
  Directories,   \* the sets of chunk files a meeting may have
  Backend,       \* "local", "s3": CHUNK_STORAGE_BACKEND
  Asked,         \* the values whisper_resample_to_16k may have
  UserOf,        \* the user of each stream, as a function of its name
  FullRate,      \* 48_000, the one rate that can be brought down
  MaxChunks,     \* MAX_MEETING_AUDIO_CHUNKS
  MaxInput,      \* MAX_MEETING_AUDIO_INPUT_PCM_BYTES, MAX_S3_FINAL_ASR_BYTES, in samples
  MaxFile,       \* MAX_WAV_CHUNK_PCM_BYTES
  MaxSpan,       \* MAX_MEETING_AUDIO_SPAN_MS
  MaxSpeakers,   \* MAX_SPEAKER_AUDIO_OUTPUTS
  MaxStitched,   \* MAX_SPEAKER_AUDIO_PCM_BYTES, in samples
  Faults,        \* may calls fail and processes die?
  MaxTries,      \* bound on the attempts of the job
  None

VARIABLES
  dir,      \* the chunk files: [name, seq, start, rate, wav]
  rows,     \* the chunks live transcription is done with
  backend,
  mapped,   \* does ssrc_mapping.json name the streams' users?
  asked,    \* whisper_resample_to_16k
  phase,    \* where the job is
  manifest, \* the entries of the manifest: [chunk, speaker]
  done,     \* completed_live_chunks
  todo,     \* the entries still to prepare
  ends,     \* speaker_ends
  inputs,   \* the prepared inputs: [chunk, speaker, skip, copy, offset]
  heard,    \* the samples transcribed: <<who, sample>>
  metered,  \* audio charged for: <<chunk, copy>>
  stored,   \* are the final segments in the database?
  staged,   \* .speaker-build-tmp: the files of the build under way
  speakers, \* speakers/: speaker -> file
  tries

vars == <<dir, rows, backend, mapped, asked, phase, manifest, done, todo, ends, inputs,
          heard, metered, stored, staged, speakers, tries>>

inputVars == <<manifest, done, todo, ends, inputs>>
resultVars == <<heard, metered, stored>>
worldVars == <<dir, rows, backend, asked>>

Monus(a, b) == IF a > b THEN a - b ELSE 0
Least(S) == CHOOSE x \in S : \A y \in S : x <= y
Greatest(S) == CHOOSE x \in S : \A y \in S : x >= y
Total(S, f(_)) == FoldLeft(LAMBDA sum, c : sum + f(c), 0, SetToSeq(S))

-----------------------------------------------------------------------------
(* Chunk files.                                                            *)

(* What a WAV file says of itself: is its form the one that is expected    *)
(* (mono, 16 bits, a known rate), and the sizes in its two headers and on  *)
(* the disk.  A file that was cut off in the middle does not agree.        *)
HeaderSize == 44

Metadata(w) ==
  /\ w.file <= MaxFile + HeaderSize /\ w.file >= HeaderSize /\ w.form
  /\ w.data # 0 /\ w.data <= MaxFile /\ w.data % 2 = 0
  /\ w.riff >= 36 + w.data /\ 8 + w.riff <= w.file
  /\ HeaderSize + w.data <= w.file

ReadPcm(w) ==
  /\ w.file <= MaxFile + HeaderSize /\ w.file >= HeaderSize
  /\ 8 + w.riff <= w.file
  /\ w.form
  /\ w.data <= MaxFile /\ w.riff >= 36 + w.data
  /\ w.data # 0 /\ w.data % 2 = 0
  /\ HeaderSize + w.data <= w.file

Samples(c) == c.wav.data \div 2
Duration(c) == Samples(c) \div c.rate
End(c) == c.start + Duration(c)

Mapping(name) == IF mapped /\ name \in DOMAIN UserOf THEN UserOf[name] ELSE name

Loaded == {c \in dir : ReadPcm(c.wav)}
LoadFails ==
  Loaded = {} \/ Cardinality(Loaded) > MaxChunks \/ Total(Loaded, LAMBDA c : Samples(c)) > MaxInput

(* The manifest of the local backend is the one the mixdown is made from.  *)
LocalManifest == {[chunk |-> c, speaker |-> c.name] : c \in {d \in dir : Metadata(d.wav)}}
LocalScanFails == LocalManifest = {} \/ Cardinality(LocalManifest) > MaxChunks

S3Manifest == {[chunk |-> c, speaker |-> Mapping(c.name)] : c \in {d \in dir : Metadata(d.wav)}}
S3ScanFails ==
  LET chunks == {e.chunk : e \in S3Manifest}
  IN \/ chunks = {} \/ Cardinality(chunks) > MaxChunks
     \/ Total(chunks, LAMBDA c : Samples(c)) > MaxInput
     \/ Greatest({End(c) : c \in chunks}) - Least({c.start : c \in chunks}) > MaxSpan
     \/ Cardinality({e.speaker : e \in S3Manifest}) > MaxSpeakers

MeetingStart(chunks) ==
  LET starts == {c.start : c \in chunks}
  IN Least(IF starts = {0} THEN starts ELSE starts \ {0})

-----------------------------------------------------------------------------
(* What is left for the final transcription.                               *)

Key(speaker, c) == <<speaker, c.seq, c.start>>

(* Mutant: the names of the streams are not mapped to users.               *)
MutProcessed == {Key(c.name, c) : c \in done}

Processed == {Key(Mapping(c.name), c) : c \in done}

IsProcessed(e) == Key(e.speaker, e.chunk) \in Processed
Unprocessed == {e \in manifest : ~IsProcessed(e)}

(* By speaker, by time, by the name of the file, which is compared as a    *)
(* string and may put files of one time in any order.  Speakers have       *)
(* nothing to do with each other here, so theirs is left open too.         *)
OffsetMs(e) == Monus(e.chunk.start, MeetingStart({f.chunk : f \in manifest}))
Orders(entries) ==
  {s \in SetToSeqs(entries) :
    \A i, j \in DOMAIN s : i < j => OffsetMs(s[i]) <= OffsetMs(s[j])}

Overlap(e) == Monus(ends[e.speaker], e.chunk.start)

(* The samples an input leaves out, or None if nothing remains.            *)
Skip(e) ==
  IF Overlap(e) >= Duration(e.chunk) /\ Overlap(e) > 0 THEN None
  ELSE IF Overlap(e) * e.chunk.rate >= Samples(e.chunk) THEN None
  ELSE Overlap(e) * e.chunk.rate

(* Only the full rate can be brought down.  A copy is made when the input  *)
(* is trimmed or brought down.                                             *)
Copied(e) ==
  Skip(e) > 0 \/ (asked /\ e.chunk.rate = FullRate /\ Samples(e.chunk) >= 3)
Prepared(e) ==
  [chunk |-> e.chunk, speaker |-> e.speaker, skip |-> Skip(e),
   copy |-> Copied(e),
   offset |-> Monus(e.chunk.start + (Skip(e) \div e.chunk.rate),
                    MeetingStart({f.chunk : f \in manifest}))]

AudioOf(i) == {<<i.chunk, k>> : k \in i.skip .. Samples(i.chunk) - 1}
WholeChunk(c) == {<<c, k>> : k \in 0 .. Samples(c) - 1}

UsagePaths ==
  {<<e.chunk, FALSE>> : e \in {f \in manifest : IsProcessed(f)}}
    \union {<<i.chunk, i.copy>> : i \in ToSet(inputs)}

-----------------------------------------------------------------------------
(* One file of a speaker: chunks in order, silence between them, what is   *)
(* there already left out.                                                 *)

Pcm(c, skip) == [k \in 1 .. Samples(c) - skip |-> <<c, skip + k - 1>>]
Silence(ms, rate) == [k \in 1 .. ms * rate |-> None]

(* The file and the time at which it ends, so far.                         *)
Stitch(file, c) ==
  LET gap == Monus(c.start, file.end)
      now == file.end + gap
      skip == (now - c.start) * c.rate
      pcm == file.pcm \o Silence(gap, c.rate)
  IN IF skip >= Samples(c) THEN [pcm |-> pcm, end |-> now]
     ELSE [pcm |-> pcm \o Pcm(c, skip), end |-> now + ((Samples(c) - skip) \div c.rate)]

(* By time and by number.                                                  *)
Before(c, d) == c.start < d.start \/ (c.start = d.start /\ c.seq < d.seq)

ChunksOf(speaker) == {c \in Loaded : Mapping(c.name) = speaker}
SpeakerFile(speaker) ==
  LET chunks == SetToSortSeq(ChunksOf(speaker), Before)
      first == Head(chunks)
  IN FoldLeft(Stitch, [pcm |-> Pcm(first, 0), end |-> End(first)], Tail(chunks)).pcm

PlaybackSpeakers == {Mapping(c.name) : c \in Loaded}
BuildFails ==
  LoadFails \/ Cardinality({c.rate : c \in Loaded}) > 1 \/ Cardinality(PlaybackSpeakers) > MaxSpeakers

-----------------------------------------------------------------------------
(* The job.                                                                *)

Names == {c.name : c \in dir}
NoFiles == [s \in Names \union {UserOf[n] : n \in DOMAIN UserOf} |-> None]

Init ==
  /\ dir \in Directories /\ rows \in SUBSET {c \in dir : Metadata(c.wav)}
  /\ backend \in Backend /\ mapped \in BOOLEAN /\ asked \in Asked
  /\ phase = "idle" /\ manifest = {} /\ done = {} /\ todo = <<>>
  /\ ends = [s \in DOMAIN NoFiles |-> 0] /\ inputs = <<>>
  /\ heard = {} /\ metered = {} /\ stored = FALSE
  /\ staged = NoFiles /\ speakers = NoFiles /\ tries = 0

Fail == phase' = "failed"

(* Final segments of an earlier attempt are not made again; what is played *)
(* is.                                                                     *)
Claim ==
  /\ phase \in {"idle", "failed"} /\ tries < MaxTries
  /\ tries' = tries + 1
  /\ phase' = IF stored THEN "playback" ELSE "scan"
  /\ UNCHANGED <<worldVars, mapped, inputVars, resultVars, staged, speakers>>

Scan ==
  /\ phase = "scan"
  /\ manifest' = IF backend = "s3" THEN S3Manifest ELSE LocalManifest
  /\ IF IF backend = "s3" THEN S3ScanFails ELSE LocalScanFails THEN Fail ELSE phase' = "live"
  /\ UNCHANGED <<worldVars, mapped, done, todo, ends, inputs, resultVars, staged, speakers, tries>>

(* If the live segments or their chunks cannot be read, all of the audio   *)
(* is transcribed.                                                         *)
LoadLive(read) ==
  /\ phase = "live"
  /\ done' = IF read THEN rows ELSE {}
  /\ todo' = <<>> /\ inputs' = <<>> /\ ends' = [s \in DOMAIN ends |-> 0]
  /\ phase' = "select"
  /\ UNCHANGED <<worldVars, mapped, manifest, resultVars, staged, speakers, tries>>

Select ==
  /\ phase = "select"
  /\ todo' \in Orders(Unprocessed) /\ phase' = "prepare"
  /\ UNCHANGED <<worldVars, mapped, manifest, done, ends, inputs, resultVars, staged, speakers, tries>>

PrepareNext ==
  /\ phase = "prepare" /\ todo # <<>>
  /\ LET e == Head(todo)
     IN IF Skip(e) = None THEN UNCHANGED <<phase, inputs, ends>>
        ELSE IF Copied(e) /\ ~ReadPcm(e.chunk.wav) THEN Fail /\ UNCHANGED <<inputs, ends>>
        ELSE /\ inputs' = Append(inputs, Prepared(e))
             /\ ends' = [ends EXCEPT ![e.speaker] = Greatest({@, End(e.chunk)})]
             /\ UNCHANGED phase
  /\ todo' = Tail(todo)
  /\ UNCHANGED <<worldVars, mapped, manifest, done, resultVars, staged, speakers, tries>>

(* The local backend builds the files for playback before it transcribes,  *)
(* if live transcription has left something out; s3 builds them after.     *)
AfterPrepare == IF backend = "local" /\ done # {} THEN "playback" ELSE "transcribe"

Prepare ==
  /\ phase = "prepare" /\ todo = <<>>
  /\ phase' = AfterPrepare
  /\ UNCHANGED <<worldVars, mapped, inputVars, resultVars, staged, speakers, tries>>

(* The inputs are transcribed, the live segments of the chunks that were   *)
(* left out are added, and both are stored.                                *)
Transcribe ==
  /\ phase = "transcribe"
  /\ heard' = {<<"live", s>> : s \in UNION {WholeChunk(c) : c \in done}}
       \union {<<"final", s>> : s \in UNION {AudioOf(i) : i \in ToSet(inputs)}}
  /\ metered' = UsagePaths
  /\ stored' = TRUE
  /\ phase' = IF backend = "s3" THEN "playback" ELSE "done"
  /\ UNCHANGED <<worldVars, mapped, inputVars, staged, speakers, tries>>

(* A build that fails is a warning to the local backend.                   *)
PlaybackFails ==
  phase' = IF backend = "s3" THEN "failed" ELSE IF stored THEN "done" ELSE "transcribe"

BeginBuild ==
  /\ phase = "playback"
  /\ IF BuildFails THEN PlaybackFails /\ UNCHANGED staged
     ELSE phase' = "stage" /\ staged' = NoFiles
  /\ UNCHANGED <<worldVars, mapped, inputVars, resultVars, speakers, tries>>

Stage(s) ==
  /\ phase = "stage" /\ s \in PlaybackSpeakers /\ staged[s] = None
  /\ IF Len(SpeakerFile(s)) > MaxStitched THEN PlaybackFails /\ UNCHANGED staged
     ELSE staged' = [staged EXCEPT ![s] = SpeakerFile(s)] /\ UNCHANGED phase
  /\ UNCHANGED <<worldVars, mapped, inputVars, resultVars, speakers, tries>>

AllStaged ==
  /\ phase = "stage" /\ \A s \in PlaybackSpeakers : staged[s] # None
  /\ phase' = "promote"
  /\ UNCHANGED <<worldVars, mapped, inputVars, resultVars, staged, speakers, tries>>

Promote(s) ==
  /\ phase = "promote" /\ staged[s] # None
  /\ speakers' = [speakers EXCEPT ![s] = staged[s]]
  /\ staged' = [staged EXCEPT ![s] = None]
  /\ UNCHANGED <<worldVars, mapped, phase, inputVars, resultVars, tries>>

AfterPlayback == IF stored THEN "done" ELSE "transcribe"

(* Files of speakers the build does not know are removed.                  *)
RemoveStale ==
  /\ phase = "promote" /\ staged = NoFiles
  /\ speakers' = [s \in DOMAIN speakers |-> IF s \in PlaybackSpeakers THEN speakers[s] ELSE None]
  /\ phase' = AfterPlayback
  /\ UNCHANGED <<worldVars, mapped, inputVars, resultVars, staged, tries>>

Running == phase \notin {"idle", "failed", "done"}

(* Reading a chunk, writing an input or transcribing fails.                *)
StepFails ==
  /\ Faults /\ phase \in {"prepare", "transcribe"} /\ Fail
  /\ UNCHANGED <<worldVars, mapped, inputVars, resultVars, staged, speakers, tries>>

BuildStepFails ==
  /\ Faults /\ phase \in {"stage", "promote"} /\ PlaybackFails
  /\ UNCHANGED <<worldVars, mapped, inputVars, resultVars, staged, speakers, tries>>

Crash ==
  /\ Faults /\ Running /\ phase' = "idle"
  /\ UNCHANGED <<worldVars, mapped, inputVars, resultVars, staged, speakers, tries>>

(* The mapping is uploaded and fetched like a chunk, and may be late.      *)
MappingArrives ==
  /\ Faults /\ ~mapped /\ phase \in {"idle", "failed"} /\ mapped' = TRUE
  /\ UNCHANGED <<worldVars, phase, inputVars, resultVars, staged, speakers, tries>>

Next ==
  \/ Claim \/ Scan \/ Select \/ PrepareNext \/ Prepare \/ Transcribe
  \/ \E read \in BOOLEAN : LoadLive(read)
  \/ BeginBuild \/ AllStaged \/ RemoveStale
  \/ \E s \in DOMAIN speakers : Stage(s) \/ Promote(s)
  \/ StepFails \/ BuildStepFails \/ Crash \/ MappingArrives

Spec == Init /\ [][Next]_vars

-----------------------------------------------------------------------------
(* The readers agree: whatever is in the manifest, made from the headers   *)
(* alone, can be read when its turn comes.  Otherwise one chunk cut off in *)
(* the middle would stop the transcription of the meeting for good.        *)
ManifestReadable == \A e \in manifest : ReadPcm(e.chunk.wav)

(* Nothing is transcribed twice: no sample goes to the final transcription *)
(* that the live one was done with.                                        *)
NotTwice == \A h \in heard : h[1] = "live" => <<"final", h[2]>> \notin heard

(* Every chunk is charged for as often as it is transcribed, live or in    *)
(* the end.                                                                *)
MeteredAsHeard ==
  stored => \A c \in dir :
    Cardinality({p \in metered : p[1] = c}) = Cardinality({h[1] : h \in {g \in heard : g[2][1] = c}})

(* Same speaker, same time, to within a millisecond.                       *)
UserNamed(name) == IF name \in DOMAIN UserOf THEN UserOf[name] ELSE name
TimeOf(s) == s[1].start + (s[2] \div s[1].rate)
SameMoment(s, t) ==
  /\ UserNamed(s[1].name) = UserNamed(t[1].name)
  /\ TimeOf(s) - TimeOf(t) \in -1 .. 1

(* Nothing is lost: every sample of a chunk that can be read is heard, or  *)
(* one of the same speaker at the same moment is.                          *)
AllHeard ==
  stored => \A c \in Loaded :
    \A s \in WholeChunk(c) : \E h \in heard : h[2] = s \/ SameMoment(h[2], s)

(* How late a file may be: by what its chunks have beyond a whole number   *)
(* of milliseconds.                                                        *)
Slack(chunks) == Total(chunks, LAMBDA c : Samples(c) % c.rate)

Plays(file, chunks) ==
  LET first == Least({c.start : c \in chunks})
      sounds == {file[k] : k \in 1 .. Len(file)} \ {None}
  IN /\ \A k \in 1 .. Len(file) : file[k] # None =>
          LET c == file[k][1]
          IN (first * c.rate + k - 1) - (c.start * c.rate + file[k][2]) \in 0 .. Slack(chunks)
     /\ \A c \in chunks : \A s \in WholeChunk(c) : s \in sounds \/ \E t \in sounds : SameMoment(s, t)

(* When the job is done every speaker can be played, each with all that    *)
(* was recorded, at the time it was said, and nobody else.                 *)
SpeakersPlayable ==
  phase = "done" => \A s \in DOMAIN speakers :
    /\ (speakers[s] # None) <=> (s \in PlaybackSpeakers)
    /\ speakers[s] # None => Plays(speakers[s], ChunksOf(s))
=============================================================================
