------------------------------ MODULE SidText ------------------------------
(***************************************************************************)
(* What is on the display: the temporary text and the event mark of        *)
(* SidResource.cpp, set by the CAN handler and the RN52 thread and taken   *)
(* by the SID thread with interrupts masked, and the scroller (Scroller.h, *)
(* Scroller.cpp), filled by the RN52 thread and read by the SID thread     *)
(* under a semaphore.  Requests and pauses are in SidResource.tla, the     *)
(* frames of a text in TextGroup.tla.                                      *)
(***************************************************************************)
EXTENDS Naturals, Sequences, UtfConvert

CONSTANTS
  Window,    \* WRITE_BUF_SIZE, the 12 characters of the display
  BufSize,   \* ARTIST_BUF_SIZE and TITLE_BUF_SIZE, 64
  Separator, \* " - ", as characters
  Songs,     \* [artist, title], in bytes as the module sends them
  Letters,   \* what a text in bytes says, in letters
  Grants     \* grants each temporary text is shown for: 4, 10 and 3

Temps == {"version", "PAIRING", "CONNECTED"}

ASSUME SidTextAssumption ==
  /\ {Window, BufSize} \subseteq Nat \ {0} /\ Separator \in Seq(Nat) \ {<<>>}
  /\ \A s \in Songs : Len(s.artist) \in Nat /\ Len(s.title) \in Nat
  /\ Grants \in [Temps -> Nat \ {0}]

VARIABLES
  masked,   \* who has interrupts masked: "sid", "rn52" or "nobody"
  wanted,   \* sidWriteAccessWanted
  tempText, \* its two halves
  tempGrants,
  writeTextOnDisplayUpdateNeeded,
  flags,    \* signals of the SID thread: "grant", "clear"
  text, position, text_len, \* of the scroller
  info_lock,
  sid,       \* where the SID thread stands
  fetched, grants, localTemp, useTemp, event, \* what it holds in hand
  buffer,   \* StringBuffer: chars, to_cut
  rn52,     \* where the RN52 thread stands
  song,     \* what it passes to set_info
  left,     \* grants the last temporary text has still to be shown for
  last,     \* that text
  fresh,    \* the display was activated since the last text was begun
  first,    \* the text in hand is the first since then
  playing,  \* what the scroller has, <<>> or a song's text
  turn,     \* how often it was read
  expected  \* what it had to show when last read

tempVars == <<tempText, tempGrants, writeTextOnDisplayUpdateNeeded>>
scrollerVars == <<text, position, text_len>>
handVars == <<grants, localTemp, useTemp, event>>
tempGhosts == <<left, last>>
eventGhosts == <<fresh, first>>
scrollGhosts == <<playing, turn, expected>>
textVars == <<masked, wanted, tempVars, flags, scrollerVars, info_lock, sid, fetched, handVars,
              buffer, rn52, song, tempGhosts, eventGhosts, scrollGhosts>>

NoSong == [artist |-> <<>>, title |-> <<>>]
TextInit ==
  /\ masked = "nobody" /\ wanted = FALSE
  /\ tempText = <<"version", "version">> /\ tempGrants = 0
  /\ writeTextOnDisplayUpdateNeeded = FALSE
  /\ flags = {} /\ text = <<>> /\ position = 0 /\ text_len = 0 /\ info_lock = 1
  /\ sid = "idle" /\ fetched = {} /\ grants = 0 /\ localTemp = <<"version", "version">>
  /\ useTemp = FALSE /\ event = FALSE /\ buffer = [chars |-> <<>>, to_cut |-> 0]
  /\ first = FALSE /\ expected = <<>>
  /\ rn52 = "idle" /\ song = NoSong
  /\ left = 0 /\ last = "version" /\ fresh = FALSE /\ playing = <<>> /\ turn = 0

-----------------------------------------------------------------------------
(* The CAN handler.  Threads do not run until it returns, and it does not  *)
(* run while interrupts are masked.                                        *)

Handler ==
  /\ masked = "nobody"
  /\ UNCHANGED <<masked, scrollerVars, info_lock, sid, fetched, handVars, buffer, rn52, song, first,
                 scrollGhosts>>

ShowTemporary(t) ==
  /\ tempText' = <<t, t>> /\ tempGrants' = Grants[t]
  /\ left' = Grants[t] /\ last' = t

ActivateText ==
  /\ ShowTemporary("version")
  /\ wanted' = TRUE /\ writeTextOnDisplayUpdateNeeded' = TRUE /\ fresh' = TRUE
  /\ flags' = flags \cup {"clear"}
  /\ Handler

DeactivateText ==
  /\ wanted' = FALSE /\ flags' = flags \cup {"clear"}
  /\ Handler /\ UNCHANGED <<tempVars, tempGhosts, fresh>>

Pairing ==
  /\ ShowTemporary("PAIRING")
  /\ Handler /\ UNCHANGED <<wanted, writeTextOnDisplayUpdateNeeded, flags, fresh>>

GrantText ==
  /\ wanted /\ flags' = flags \cup {"grant"}
  /\ Handler /\ UNCHANGED <<wanted, tempVars, tempGhosts, fresh>>

-----------------------------------------------------------------------------
(* Interrupts, and with them the change of threads, and the semaphore.     *)
NotMasked(me) == "nobody"
Mask(me) == me
Runs(me) == masked \in {"nobody", me}

Wait == info_lock > 0 /\ info_lock' = info_lock - 1
Release == info_lock' = info_lock + 1

-----------------------------------------------------------------------------
(* The RN52 thread: onA2DPProfileChange and, after track data, set_info.   *)

RN52Thread ==
  /\ Runs("rn52")
  /\ UNCHANGED <<wanted, writeTextOnDisplayUpdateNeeded, flags, sid, fetched, handVars, buffer,
                 eventGhosts, expected>>

ShowConnected ==
  /\ rn52 = "idle" /\ rn52' = "copy"
  /\ masked' = Mask("rn52")
  /\ RN52Thread
  /\ UNCHANGED <<tempText, tempGrants, scrollerVars, info_lock, song, tempGhosts, playing, turn>>

CopyFirstHalf ==
  /\ rn52 = "copy" /\ rn52' = "copied"
  /\ tempText' = [tempText EXCEPT ![1] = "CONNECTED"]
  /\ RN52Thread
  /\ UNCHANGED <<masked, tempGrants, scrollerVars, info_lock, song, tempGhosts, playing, turn>>

CopySecondHalf ==
  /\ rn52 = "copied" /\ rn52' = "idle"
  /\ tempText' = [tempText EXCEPT ![2] = "CONNECTED"]
  /\ tempGrants' = Grants["CONNECTED"]
  /\ left' = Grants["CONNECTED"] /\ last' = "CONNECTED"
  /\ masked' = "nobody"
  /\ RN52Thread
  /\ UNCHANGED <<scrollerVars, info_lock, song, playing, turn>>

SetInfo == UNCHANGED <<masked, tempText, tempGrants, tempGhosts>>

WaitToSet ==
  /\ rn52 = "idle" /\ rn52' = "artist"
  /\ Wait
  /\ song' \in Songs
  /\ RN52Thread /\ SetInfo /\ UNCHANGED <<scrollerVars, playing, turn>>

SetArtist ==
  /\ rn52 = "artist" /\ rn52' = "title"
  /\ text' = Convert(song.artist, BufSize)
  /\ RN52Thread /\ SetInfo /\ UNCHANGED <<position, text_len, info_lock, song, playing, turn>>

(* What a song is to be shown as: the artist and the title, each cut to    *)
(* its buffer, repeating after a separator when they do not fit.           *)
Join(artist, title) ==
  artist \o (IF artist # <<>> /\ title # <<>> THEN Separator ELSE <<>>) \o title
Cut(s) == SubSeq(s, 1, IF Len(s) < BufSize THEN Len(s) ELSE BufSize - 1)
Ring(s) ==
  LET whole == Join(Cut(Letters[s.artist]), Cut(Letters[s.title]))
  IN IF Len(whole) > Window THEN whole \o Separator ELSE whole

SeparatorUncounted == 0
SeparatorLength == Len(Separator)
SetTitle ==
  /\ rn52 = "title" /\ rn52' = "idle"
  /\ LET joined == Join(text, Convert(song.title, BufSize))
     IN IF Len(joined) > Window
        THEN text' = joined \o Separator /\ text_len' = Len(joined) + SeparatorLength
        ELSE text' = joined /\ text_len' = Len(joined)
  /\ position' = 0
  /\ playing' = Ring(song) /\ turn' = 0
  /\ Release
  /\ song' = NoSong
  /\ RN52Thread /\ SetInfo

-----------------------------------------------------------------------------
(* The SID thread: handleSignals, writeGrantedText                         *)

TextThread ==
  /\ Runs("sid")
  /\ UNCHANGED <<wanted, rn52, song, last>>

Fetch ==
  /\ sid = "idle" /\ flags # {}
  /\ fetched' = flags /\ flags' = {}
  /\ sid' = IF "clear" \in flags THEN "clear" ELSE "mask"
  /\ TextThread
  /\ UNCHANGED <<masked, tempVars, scrollerVars, info_lock, handVars, buffer, left, eventGhosts,
                 scrollGhosts>>

Clearing == TextThread /\ UNCHANGED <<masked, tempVars, flags, fetched, handVars, buffer, left,
                                     eventGhosts, expected>>
WaitToClear ==
  /\ sid = "clear" /\ sid' = "cleartext"
  /\ Wait
  /\ Clearing /\ UNCHANGED <<scrollerVars, playing, turn>>

Clear ==
  /\ sid = "cleartext"
  /\ sid' = IF "grant" \in fetched THEN "mask" ELSE "idle"
  /\ text' = <<>> /\ position' = 0 /\ text_len' = 0
  /\ playing' = <<>> /\ turn' = 0
  /\ Release
  /\ Clearing

Snapshot == TextThread /\ UNCHANGED <<flags, scrollerVars, info_lock, fetched, buffer, scrollGhosts>>

(* The critical section begins.                                            *)
DisableIrq ==
  /\ sid = "mask" /\ sid' = "load"
  /\ masked' = Mask("sid")
  /\ first' = fresh /\ fresh' = FALSE
  /\ Snapshot /\ UNCHANGED <<tempVars, handVars, left>>

(* tempGrants-- is a load and a store.                                     *)
LoadGrants ==
  /\ sid = "load" /\ sid' = IF tempGrants > 0 THEN "store" ELSE "event"
  /\ useTemp' = (tempGrants > 0) /\ grants' = tempGrants
  /\ Snapshot /\ UNCHANGED <<masked, tempVars, localTemp, event, left, eventGhosts>>

StoreGrants ==
  /\ sid = "store" /\ sid' = "event"
  /\ tempGrants' = grants - 1
  /\ left' = IF left > 0 THEN left - 1 ELSE 0
  /\ localTemp' = [localTemp EXCEPT ![1] = tempText[1]]
  /\ Snapshot
  /\ UNCHANGED <<masked, tempText, writeTextOnDisplayUpdateNeeded, grants, useTemp, event,
                 eventGhosts>>

(* The rest of the text and the event mark are taken, and the critical     *)
(* section ends.                                                           *)
KeepEvent == UNCHANGED writeTextOnDisplayUpdateNeeded
ClearEvent == writeTextOnDisplayUpdateNeeded' = FALSE
EnableIrq ==
  /\ sid = "event" /\ sid' = IF useTemp THEN "format" ELSE "get"
  /\ localTemp' = IF useTemp THEN [localTemp EXCEPT ![2] = tempText[2]] ELSE localTemp
  /\ event' = writeTextOnDisplayUpdateNeeded
  /\ ClearEvent
  /\ masked' = "nobody"
  /\ Snapshot /\ UNCHANGED <<tempText, tempGrants, grants, useTemp, left, eventGhosts>>

(* StringBuffer::add *)
Add(b, s) ==
  IF b.to_cut >= Len(s)
  THEN [buffer |-> [b EXCEPT !.to_cut = @ - Len(s)], all |-> TRUE]
  ELSE LET rest == SubSeq(s, b.to_cut + 1, Len(s))
           room == Window - Len(b.chars)
           added == IF Len(rest) > room THEN SubSeq(rest, 1, room) ELSE rest
       IN [buffer |-> [chars |-> b.chars \o added, to_cut |-> 0], all |-> added = rest]

(* What is to be seen of a text when it is read for the nth time.          *)
Seen(s, n) ==
  IF Len(s) <= Window THEN s ELSE [i \in 1 .. Window |-> s[((n + i - 1) % Len(s)) + 1]]

Reading == TextThread /\ UNCHANGED <<masked, tempVars, flags, text, text_len, fetched, handVars,
                                    left, eventGhosts, playing>>

(* Scroller::get *)
WaitToGet ==
  /\ sid = "get" /\ sid' = "add"
  /\ Wait
  /\ Reading /\ UNCHANGED <<position, buffer, turn, expected>>

Kept == UNCHANGED info_lock
ReleaseEarly == Release
AddText ==
  /\ sid = "add"
  /\ LET added == Add([chars |-> <<>>, to_cut |-> position], text)
     IN /\ buffer' = added.buffer
        /\ IF position = 0 /\ added.all
           THEN /\ sid' = "format" /\ expected' = Seen(playing, turn)
                /\ ReleaseEarly
           ELSE /\ sid' = IF added.all THEN "addagain" ELSE "advance"
                /\ UNCHANGED <<info_lock, expected>>
  /\ Reading /\ UNCHANGED <<position, turn>>

Advance ==
  /\ sid \in {"addagain", "advance"} /\ sid' = "format"
  /\ buffer' = IF sid = "addagain" THEN Add(buffer, text).buffer ELSE buffer
  /\ position' = IF position + 1 >= text_len THEN position + 1 - text_len ELSE position + 1
  /\ expected' = Seen(playing, turn)
  /\ turn' = IF playing = <<>> THEN 0 ELSE (turn + 1) % Len(playing)
  /\ Release
  /\ Reading

(* formatTextMessage takes the text, and the locals are gone.  The buffer  *)
(* too is cleared before it is used again.                                 *)
FormatTextMessage ==
  /\ sid = "format" /\ sid' = "idle"
  /\ fetched' = {} /\ grants' = 0 /\ localTemp' = <<"version", "version">>
  /\ useTemp' = FALSE /\ event' = FALSE /\ buffer' = [chars |-> <<>>, to_cut |-> 0]
  /\ first' = FALSE /\ expected' = <<>>
  /\ TextThread
  /\ UNCHANGED <<masked, tempVars, flags, scrollerVars, info_lock, left, fresh, playing, turn>>

-----------------------------------------------------------------------------
TextHandlers == ActivateText \/ DeactivateText \/ Pairing \/ GrantText
Shows == CopyFirstHalf \/ CopySecondHalf
Sets == SetArtist \/ SetTitle
Writes == \/ Fetch \/ WaitToClear \/ Clear
          \/ DisableIrq \/ LoadGrants \/ StoreGrants \/ EnableIrq
          \/ WaitToGet \/ AddText \/ Advance \/ FormatTextMessage

TextNext == TextHandlers \/ ShowConnected \/ Shows \/ WaitToSet \/ Sets \/ Writes

(* Round robin gives a ready thread the processor whatever the other does, *)
(* and a semaphore is handed to the thread that waits for it.              *)
TextSpec == TextInit /\ [][TextNext]_textVars /\ SF_textVars(Writes) /\ SF_textVars(Shows \/ Sets)
-----------------------------------------------------------------------------
(* The last temporary text asked for is there, for as many grants as it    *)
(* was asked for less those it was shown for, and what is shown is never a *)
(* mix of two ("interleave with the decrement or rewrite tempText").       *)
TemporaryExact ==
  /\ masked = "nobody" => /\ tempGrants = left
                          /\ left > 0 => tempText = <<last, last>>
  /\ sid = "format" /\ useTemp => localTemp[1] = localTemp[2]

(* "only the first write after activation is an event write", and it is    *)
(* one, also when the display is activated while a text is being written.  *)
EventOnce == sid = "format" => (event <=> first)

(* What the scroller shows is always cut from one whole song, one further  *)
(* to the right each time and around its end, in the letters the song is   *)
(* in whichever way it is encoded, and however the scroller's filling, its *)
(* clearing and its reading fall together.                                 *)
ScrollerShows == sid = "format" /\ ~useTemp => buffer.chars = expected

(* utf_convert makes of each text what it says, as much as fits.           *)
TextsConverted ==
  \A s \in Songs : \A bytes \in {s.artist, s.title} :
    Letters[bytes] \in Seq(Nat) /\ Convert(bytes, BufSize) = Cut(Letters[bytes])

(* Every grant leads to a text: no early return keeps the semaphore.       *)
TextWritten == "grant" \in flags ~> sid = "format"
=============================================================================
