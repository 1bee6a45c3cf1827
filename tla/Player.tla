-------------------------------- MODULE Player --------------------------------
(***************************************************************************)
(* The players of the web front end (app/player/audio/page.tsx and         *)
(* app/player/video/page.tsx): the state of the page beside that of the    *)
(* media element, the playlist, the controls that hide, and the editor of  *)
(* subtitles and lyrics with the files it writes and reads.                *)
(***************************************************************************)
EXTENDS Naturals, Sequences, SequencesExt

CONSTANTS
  Tracks,       \* how many tracks the playlist of the audio player has
  Levels,       \* levels of the volume above silence
  MaxTimers,    \* bound: timers that are under way at once
  MaxEntries,   \* bound: subtitles in the editor
  MaxActs,      \* bound: what the user does
  Nil           \* no file

VARIABLES
  page,         \* what is open: nothing, a player, or the dialog with its editor,
                \* which shares no state with the player and covers it
  isPlaying, element,          \* the page's view; whether the element plays
  currentTrack, isRepeat, ended,   \* playlist; what handleEnded closed over
  volume, isMuted, sound,      \* the page's; the volume of the element
  showControls, timers,        \* controls; timers that hide them: the isPlaying they saw
  entries, file,               \* the editor; the file last exported
  pausedSince, doubtful, acts   \* history
  \* whether the video was paused since the mouse moved last; whether ids may be
  \* double: an entry was deleted since the entries were loaded, or what was
  \* loaded has no numbers

playVars == <<isPlaying, element>>
trackVars == <<currentTrack, isRepeat, ended>>
soundVars == <<volume, isMuted, sound>>
controlVars == <<showControls, timers, pausedSince>>
editorVars == <<entries, file, doubtful>>
vars == <<page, playVars, trackVars, soundVars, controlVars, editorVars, acts>>

Half == 1   \* 0.5, one of the levels

Init ==
  /\ page = "none"
  /\ isPlaying = FALSE /\ element = FALSE
  /\ currentTrack = 1 /\ isRepeat = FALSE /\ ended = [repeat |-> FALSE, track |-> 1]
  /\ volume = Levels /\ isMuted = FALSE /\ sound = Levels
  /\ showControls = TRUE /\ timers = <<>> /\ pausedSince = FALSE
  /\ entries = <<>> /\ file = Nil /\ doubtful = FALSE
  /\ acts = 0

Act == acts < MaxActs /\ acts' = acts + 1

Open(p) ==
  /\ page = "none" /\ page' = p
  /\ UNCHANGED <<playVars, trackVars, soundVars, controlVars, editorVars, acts>>

-----------------------------------------------------------------------------
(* Playing                                                                 *)

\* togglePlayPause: the page believes that the element plays, which may refuse.
TogglePlayPause ==
  /\ Act /\ page \in {"audio", "video"}
  /\ isPlaying' = ~isPlaying
  /\ element' \in IF isPlaying THEN {FALSE} ELSE BOOLEAN
  /\ pausedSince' = (pausedSince \/ isPlaying)
  /\ UNCHANGED <<page, trackVars, soundVars, showControls, timers, editorVars>>

\* The listener is renewed with what it depends on.
Ears(repeat, track) == [repeat |-> repeat, track |-> track]

ToggleRepeat ==
  /\ Act /\ page = "audio"
  /\ isRepeat' = ~isRepeat
  /\ ended' = Ears(~isRepeat, currentTrack)
  /\ UNCHANGED <<page, playVars, currentTrack, soundVars, controlVars, editorVars>>

\* Mutant of NewSource: the element has autoplay.
NewSourcePlays == TRUE

\* <audio>: another source is not played by itself.
NewSource == FALSE

\* The playlist.
ChooseTrack(k) ==
  /\ Act /\ page = "audio" /\ k # currentTrack
  /\ currentTrack' = k /\ element' = NewSource
  /\ ended' = Ears(isRepeat, k)
  /\ UNCHANGED <<page, isPlaying, isRepeat, soundVars, controlVars, editorVars>>

\* handleEnded, on the page for audio: again, the next track, or the end.
Ended ==
  /\ page = "audio" /\ element
  /\ IF ended.repeat THEN element' = TRUE /\ UNCHANGED <<isPlaying, currentTrack, ended>>
     ELSE IF ended.track < Tracks
       THEN /\ currentTrack' = ended.track + 1
            /\ element' = (currentTrack' # currentTrack /\ NewSource)
            /\ ended' = Ears(isRepeat, currentTrack')
            /\ UNCHANGED isPlaying
       ELSE isPlaying' = FALSE /\ element' = FALSE /\ UNCHANGED <<currentTrack, ended>>
  /\ UNCHANGED <<page, isRepeat, soundVars, controlVars, editorVars, acts>>

\* The page for video does not listen for the end.
VideoEnds ==
  /\ page = "video" /\ element
  /\ element' = FALSE
  /\ UNCHANGED <<page, isPlaying, trackVars, soundVars, controlVars, editorVars, acts>>

-----------------------------------------------------------------------------
(* Volume                                                                  *)

\* handleVolumeChange
MutedBy(level) == level = 0
ChangeVolume(level) ==
  /\ Act /\ page \in {"audio", "video"}
  /\ sound' = level /\ volume' = level /\ isMuted' = MutedBy(level)
  /\ UNCHANGED <<page, playVars, trackVars, controlVars, editorVars>>

\* toggleMute: a volume of zero comes back as a half.
Unmuted == IF volume = 0 THEN Half ELSE volume
ToggleMute ==
  /\ Act /\ page \in {"audio", "video"}
  /\ isMuted' = ~isMuted
  /\ IF isMuted THEN sound' = Unmuted /\ volume' = Unmuted
                ELSE sound' = 0 /\ UNCHANGED volume
  /\ UNCHANGED <<page, playVars, trackVars, controlVars, editorVars>>

\* What the slider and its button show.
Slider == IF isMuted THEN 0 ELSE volume

-----------------------------------------------------------------------------
(* The controls of the video                                               *)

\* handleMouseMove clears the timer before it sets another.
StillUnderWay == <<>>
MouseMoves ==
  /\ Act /\ page = "video" /\ Len(timers) < MaxTimers
  /\ showControls' = TRUE /\ pausedSince' = FALSE
  /\ timers' = Append(StillUnderWay, isPlaying)
  /\ UNCHANGED <<page, playVars, trackVars, soundVars, editorVars>>

\* After three seconds.
TimerFires ==
  /\ timers # <<>>
  /\ timers' = Tail(timers)
  /\ showControls' = (showControls /\ ~Head(timers))
  /\ UNCHANGED <<page, playVars, trackVars, soundVars, pausedSince, editorVars, acts>>

MouseLeaves ==
  /\ page = "video" /\ isPlaying /\ showControls
  /\ showControls' = FALSE
  /\ UNCHANGED <<page, playVars, trackVars, soundVars, timers, pausedSince, editorVars, acts>>

-----------------------------------------------------------------------------
(* The editor: a file is a sequence of lines                               *)

Number(i) == <<"number", i>>
Time == <<"time", 0>>
Word == <<"word", 0>>
Blank == <<"blank", 0>>

\* Texts: an entry is empty until it is edited. Their lines are no numbers and no
\* times.
Plain == {<<Word>>, <<Word, Word>>}
Texts == Plain \cup {<<Blank>>, <<Word, Blank, Word>>}

AddEntry ==
  /\ Act /\ page = "editor" /\ Len(entries) < MaxEntries
  /\ entries' = Append(entries, [id |-> Len(entries) + 1, text |-> <<Blank>>])
  /\ UNCHANGED <<page, playVars, trackVars, soundVars, controlVars, file, doubtful>>

\* Every entry of that id.
UpdateEntry(k, text) ==
  /\ Act /\ k \in DOMAIN entries /\ entries[k].text # text
  /\ entries' = [i \in DOMAIN entries |->
                   IF entries[i].id = entries[k].id THEN [entries[i] EXCEPT !.text = text]
                   ELSE entries[i]]
  /\ UNCHANGED <<page, playVars, trackVars, soundVars, controlVars, file, doubtful>>

\* filter
Without(list, id) ==
  LET kept[n \in 0..Len(list)] ==
        IF n = 0 THEN <<>>
        ELSE IF list[n].id = id THEN kept[n - 1] ELSE Append(kept[n - 1], list[n])
  IN kept[Len(list)]

DeleteEntry(k) ==
  /\ Act /\ k \in DOMAIN entries
  /\ entries' = Without(entries, entries[k].id)
  /\ doubtful' = TRUE
  /\ UNCHANGED <<page, playVars, trackVars, soundVars, controlVars, file>>

\* Mutant of Numbering: entries keep their ids.
NumberingById(k) == entries[k].id

\* The entries are numbered anew.
Numbering(k) == k
Srt == FlattenSeq([k \in DOMAIN entries |->
                     <<Number(Numbering(k)), Time>> \o entries[k].text \o <<Blank>>])

\* What the other formats hold: no numbers (video), or a line for each (audio).
Vtt == <<Word, Blank>> \o
       FlattenSeq([k \in DOMAIN entries |-> <<Time>> \o entries[k].text \o <<Blank>>])
Lrc == FlattenSeq([k \in DOMAIN entries |->
                     IF entries[k].text = <<Blank>> THEN <<Word>> ELSE entries[k].text])

Export(format) ==
  /\ Act /\ page = "editor" /\ entries # <<>>
  /\ file' = [format |-> format, entries |-> entries,
              lines |-> CASE format = "srt" -> Srt [] format = "vtt" -> Vtt [] OTHER -> Lrc]
  /\ UNCHANGED <<page, playVars, trackVars, soundVars, controlVars, entries, doubtful>>

\* trim, of lines
Trim(lines) ==
  LET full == {i \in DOMAIN lines : lines[i] # Blank}
  IN  IF full = {} THEN <<Blank>>
      ELSE SubSeq(lines, CHOOSE i \in full : \A j \in full : i <= j,
                         CHOOSE i \in full : \A j \in full : j <= i)

\* A number, the times and a text.
Enough(block) == Len(block) >= 3

\* split at empty lines, of which one that follows a split begins the next block;
\* of the blocks, those that have enough lines are kept.
Keep(blocks, block) == IF Enough(block) THEN Append(blocks, block) ELSE blocks

Taken(read, line) ==
  IF line = Blank /\ read.block # <<>>
    THEN [blocks |-> Keep(read.blocks, read.block), block |-> <<>>]
    ELSE [blocks |-> read.blocks, block |-> Append(read.block, line)]

Reading(lines) ==
  LET read[n \in 0..Len(lines)] ==
        IF n = 0 THEN [blocks |-> <<>>, block |-> <<>>] ELSE Taken(read[n - 1], lines[n])
  IN read

Blocks(lines) ==
  LET end == Reading(lines)[Len(lines)] IN Keep(end.blocks, end.block)

Entry(block) ==
  [id |-> block[1][2], text |-> Trim(SubSeq(block, 3, Len(block)))]

\* The second line of a block is split for its times, or the upload fails.
Upload ==
  /\ Act /\ file # Nil
  /\ LET blocks == Blocks(Trim(file.lines))
     IN  IF \E k \in DOMAIN blocks : blocks[k][2] # Time THEN UNCHANGED <<entries, doubtful>>
         ELSE /\ entries' = [k \in DOMAIN blocks |-> Entry(blocks[k])]
              /\ doubtful' = (file.format # "srt")
  /\ UNCHANGED <<page, playVars, trackVars, soundVars, controlVars, file>>

Next ==
  \/ \E p \in {"audio", "video", "editor"} : Open(p)
  \/ \E k \in 1..Tracks : ChooseTrack(k)
  \/ \E level \in 0..Levels : ChangeVolume(level)
  \/ \E k \in 1..MaxEntries : DeleteEntry(k) \/ \E text \in Texts : UpdateEntry(k, text)
  \/ \E f \in {"srt", "vtt", "lrc"} : Export(f)
  \/ TogglePlayPause \/ ToggleRepeat \/ Ended \/ VideoEnds \/ ToggleMute
  \/ MouseMoves \/ TimerFires \/ MouseLeaves \/ AddEntry \/ Upload

Spec == Init /\ [][Next]_vars

-----------------------------------------------------------------------------
(* Properties                                                              *)

\* What looks paused makes no sound: it stands still until it is started.
PausedStands == ~isPlaying => ~element

\* The end of the last track is the end, unless the track is to be repeated.
TheEndIsTheEnd ==
  [][ Ended /\ ~isRepeat /\ currentTrack = Tracks => ~isPlaying' ]_vars

\* The slider shows how loud it is, and what is not muted can be heard.
SoundIsHonest == Slider = sound /\ (~isMuted => sound > 0)

\* Over a video that stands still the controls are on show, unless it was
\* paused within three seconds of the last movement of the mouse.
ControlsAreShown == ~isPlaying /\ ~pausedSince => showControls

\* Together: the controls of the players are there, show what plays and how
\* loud, and the end is the end.
PlayerIsHonest == [](PausedStands /\ SoundIsHonest /\ ControlsAreShown) /\ TheEndIsTheEnd

\* Deleting an entry deletes that one only, as long as none was deleted since
\* the entries were loaded from a file with numbers: ids are counted anew, and
\* all entries that are read from a file without numbers have the same.
DeletesOne ==
  [][ \A k \in 1..MaxEntries :
        DeleteEntry(k) /\ ~doubtful => Len(entries') = Len(entries) - 1 ]_vars

\* A file of subtitles that was written is read back, whatever was edited in
\* between, if its texts are neither empty nor have empty lines.
SrtIsReadBack ==
  [][ Upload /\ file.format = "srt"
      /\ (\A k \in DOMAIN file.entries : file.entries[k].text \in Plain)
        => /\ Len(entries') = Len(file.entries)
           /\ \A n \in DOMAIN entries' : entries'[n].text = file.entries[n].text ]_vars

\* Together: subtitles go only when they are deleted, in the editor and between
\* a download and the next upload.
SubtitlesAreKept == DeletesOne /\ SrtIsReadBack
==============================================================================
