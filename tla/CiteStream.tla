------------------------------ MODULE CiteStream ------------------------------
(***************************************************************************)
(* CiteStripper of server.py: Gemini's citation markers are removed from a *)
(* stream while its chunks arrive, without knowing where the next chunk    *)
(* cuts a marker.  The done event of the same stream carries strip_cites   *)
(* of the whole text, so the two must agree.                               *)
(*                                                                         *)
(* Text is a sequence of symbols: "cite" and "_start" (or "_end") are one  *)
(* symbol each, and the blanks, digits and commas inside a marker are all  *)
(* " ".  A chunk that ends inside such a word is one that ends before it.  *)
(***************************************************************************)
EXTENDS Naturals, Sequences, FiniteSets, FiniteSetsExt

CONSTANTS
  MaxHeld,      \* _CITE_MAX_LEN
  MaxText       \* bound: symbols of a stream

ASSUME CiteAssumption == MaxHeld \in Nat \ {0} /\ MaxText \in Nat

VARIABLES
  text,         \* what Gemini has sent so far
  held,         \* CiteStripper._held
  emitted,      \* what has been streamed to the client
  ended

citing == <<text, held, emitted, ended>>

Symbols == {" ", "[", "cite", ":", "_start", "]"}

-----------------------------------------------------------------------------
(* strip_cites *)

\* Symbols i to j of t are a marker, without the blank before it
Marker(t, i, j) ==
  /\ i + 3 <= j
  /\ t[i] = "[" /\ t[i + 1] = "cite" /\ t[j] = "]"
  /\ \/ t[i + 2] = ":" /\ \A k \in (i + 3)..(j - 1) : t[k] = " "
     \/ t[i + 2] = "_start" /\ j = i + 3

\* Symbols i to j match _CITE_RE: a [cite: ] takes one blank before it along
Match(t, i, j) ==
  \/ Marker(t, i, j)
  \/ t[i] = " " /\ Marker(t, i + 1, j) /\ t[i + 3] = ":"

StripCites(t) ==
  LET ends(i) == {j \in i..Len(t) : Match(t, i, j)}
      from[i \in 1..(Len(t) + 1)] ==
        IF i > Len(t) THEN <<>>
        ELSE IF ends(i) # {} THEN from[Min(ends(i)) + 1]
        ELSE <<t[i]>> \o from[i + 1]
  IN  from[1]

-----------------------------------------------------------------------------
(* CiteStripper *)

\* Faulty: a marker longer by one is let go
PartialShort(buf, start) ==
  /\ \A k \in start..Len(buf) : buf[k] # "]"
  /\ Len(buf) - start + 1 < MaxHeld
  /\ start < Len(buf) => buf[start + 1] = "cite"

\* What follows the last "[" may become a marker
Partial(buf, start) ==
  /\ \A k \in start..Len(buf) : buf[k] # "]"
  /\ Len(buf) - start + 1 <= MaxHeld
  /\ start < Len(buf) => buf[start + 1] = "cite"

\* Faulty: the blank before the marker is not held
CutAtBracket(buf) ==
  LET opens == {i \in 1..Len(buf) : buf[i] = "["}
  IN  IF opens # {} /\ Partial(buf, Max(opens)) THEN Max(opens) - 1 ELSE Len(buf)

\* How much of the buffer is safe to emit: all but a trailing partial marker
\* with the blank before it, or a trailing blank
Cut(buf) ==
  LET opens == {i \in 1..Len(buf) : buf[i] = "["}
      start == Max(opens)
  IN  IF opens # {} /\ Partial(buf, start)
      THEN IF start > 1 /\ buf[start - 1] = " " THEN start - 2 ELSE start - 1
      ELSE IF buf[Len(buf)] = " " THEN Len(buf) - 1 ELSE Len(buf)

Feed(chunk) ==
  LET buf == held \o chunk
  IN  /\ held' = SubSeq(buf, Cut(buf) + 1, Len(buf))
      /\ emitted' = emitted \o StripCites(SubSeq(buf, 1, Cut(buf)))

Flush ==
  /\ held' = <<>>
  /\ emitted' = emitted \o StripCites(held)

-----------------------------------------------------------------------------
(* The stream: _run_turns_stream feeds every chunk that is not empty *)

Chunks == UNION {[1..n -> Symbols] : n \in 1..(MaxText - Len(text))}

Chunk ==
  /\ ~ended
  /\ \E chunk \in Chunks : Feed(chunk) /\ text' = text \o chunk
  /\ UNCHANGED ended

End ==
  /\ ~ended
  /\ Flush
  /\ ended' = TRUE
  /\ UNCHANGED text

CiteInit == text = <<>> /\ held = <<>> /\ emitted = <<>> /\ ended = FALSE

CiteNext == Chunk \/ End

CiteSpec == CiteInit /\ [][CiteNext]_citing

-----------------------------------------------------------------------------
(* Properties *)

\* The type of every variable; what is held back is at most one marker and the
\* blank before it.
CiteTypeOK ==
  /\ text \in Seq(Symbols)
  /\ held \in Seq(Symbols) /\ Len(held) <= MaxHeld + 1
  /\ emitted \in Seq(Symbols)
  /\ ended \in BOOLEAN

\* A marker that outgrows what feed holds back
LongMarker(t) ==
  \E i \in 1..Len(t), j \in 1..Len(t) :
    Marker(t, i, j) /\ j - i > MaxHeld

\* However the chunks cut it, the streamed text is the text of the done event
\* (the comments in feed: "else streamed text gains a space vs _full_text"),
\* unless a marker has more than _CITE_MAX_LEN characters before its bracket.
StreamIsFinalText ==
  ended /\ ~LongMarker(text) => emitted = StripCites(text)

\* The same without the exception for long markers, as CiteStripper's
\* docstring has it ("Streaming-safe strip_cites").
StreamIsAlwaysFinalText == ended => emitted = StripCites(text)
=============================================================================
