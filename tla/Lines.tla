------------------------------- MODULE Lines -------------------------------
(***************************************************************************)
(* Two readers of text that comes in chunks, wherever it is cut.  The      *)
(* relay cuts a manifest into lines while it streams it (LineSplitter in   *)
(* relay/manifest.rs of crates/vrcr-watchdog): they end with CR, LF or     *)
(* CR LF, and a byte order mark at the start is dropped; what is done to a *)
(* line is left out.  The two sides of the pipe each read one line, up to  *)
(* a limit (ipc/framing.rs of the watchdog, pipe.rs of crates/vrcr-ytdlp). *)
(***************************************************************************)
EXTENDS Naturals, Sequences, SequencesExt

CONSTANTS
    MaxFrame,   \* MAX_REQUEST_BYTES and MAX_RESPONSE_BYTES
    MaxText     \* bound: the length of a text, in bytes

ASSUME LinesAssumption == MaxFrame \in Nat \ {0} /\ MaxText \in Nat

VARIABLES
    text,       \* the bytes the peer has yet to send
    whole,      \* history: the bytes it sends in all
    splitter,   \* LineSplitter
    lines,      \* the lines so far
    frame,      \* read_line: what it has of its line, and whether it reads on
    ended       \* the peer has ended the text

linesVars == <<text, whole, splitter, lines, frame, ended>>

Bom == <<"EF", "BB", "BF">>
Bytes == {"x", "cr", "lf", "EF", "BB", "BF"}
Texts == UNION {[1 .. n -> Bytes] : n \in 0 .. MaxText}
IsEnd(byte) == byte \in {"cr", "lf"}

NewSplitter == [buf |-> <<>>, started |-> FALSE, skipLf |-> FALSE]

LinesTypeOK ==
    /\ whole \in Texts
    /\ IsSuffix(text, whole)
    /\ splitter \in [buf : Seq(Bytes), started : BOOLEAN, skipLf : BOOLEAN]
    /\ lines \in Seq(Seq(Bytes))
    /\ frame \in [out : Seq(Bytes), open : BOOLEAN]
    /\ ended \in BOOLEAN

From(s, i) == SubSeq(s, i, Len(s))

(* The position of the first line end, or 0 *)
FirstEnd(s) == SelectInSeq(s, IsEnd)

-----------------------------------------------------------------------------
(* read_lines, for a manifest that is there as a whole: what the splitter    *)
(* must come to.                                                             *)
ReadLines[s \in Seq(Bytes)] ==
    LET i == FirstEnd(s)
        skip == IF IsPrefix(<<"cr", "lf">>, From(s, i)) THEN 2 ELSE 1
    IN  IF i = 0
        THEN IF s = <<>> THEN <<>> ELSE <<s>>
        ELSE <<SubSeq(s, 1, i - 1)>> \o ReadLines[From(s, i + skip)]

StripBom(s) == IF IsPrefix(Bom, s) THEN From(s, 4) ELSE s

-----------------------------------------------------------------------------
(* An LF that follows a CR belongs to it. *)
AfterCr(cr, s) == IF cr /\ s # <<>> /\ s[1] = "lf" THEN Tail(s) ELSE s

(* LineSplitter::scan: the lines it completes, what it keeps, and whether an *)
(* LF at the start of the next chunk belongs to the last line ...            *)
Scan[chunk \in Seq(Bytes)] ==
    LET i == FirstEnd(chunk)
        cr == chunk[i] = "cr"
        rest == From(chunk, i + 1)
        more == Scan[AfterCr(cr, rest)]
    IN  IF i = 0
        THEN [lines |-> <<>>, buf |-> chunk, skipLf |-> FALSE]
        ELSE [lines |-> <<SubSeq(chunk, 1, i - 1)>> \o more.lines, buf |-> more.buf,
              skipLf |-> more.skipLf \/ (cr /\ rest = <<>>)]

(* ... with what was kept before in front of the first of them. *)
After(buf, scan) ==
    IF scan.lines = <<>>
    THEN [scan EXCEPT !.buf = buf \o @]
    ELSE [scan EXCEPT !.lines = <<buf \o Head(@)>> \o Tail(@)]

Scanned(scan) ==
    /\ splitter' = [buf |-> scan.buf, started |-> TRUE, skipLf |-> scan.skipLf]
    /\ lines' = lines \o scan.lines

(* A byte order mark may come in pieces. *)
PushHead(chunk) ==
    LET head == splitter.buf \o chunk IN
    IF Len(head) < Len(Bom) /\ IsPrefix(head, Bom)
    THEN splitter' = [splitter EXCEPT !.buf = head] /\ UNCHANGED lines
    ELSE Scanned(Scan[StripBom(head)])

(* A mistake the run relay must catch: a CR LF that two chunks share. *)
PushUnlinked(chunk) ==
    IF splitter.started THEN Scanned(After(splitter.buf, Scan[chunk])) ELSE PushHead(chunk)

Push(chunk) ==
    IF splitter.started
    THEN Scanned(After(splitter.buf, Scan[AfterCr(splitter.skipLf, chunk)]))
    ELSE PushHead(chunk)

(* read_line: up to an LF, without the CRs and what is over the limit. *)
UpTo(n, s) == IF Len(s) > n THEN SubSeq(s, 1, n) ELSE s
FirstLine[s \in Seq(Bytes)] ==
    IF s = <<>> \/ s[1] = "lf" THEN <<>>
    ELSE (IF s[1] = "cr" THEN <<>> ELSE <<s[1]>>) \o FirstLine[Tail(s)]

ReadsFrame(chunk) ==
    LET out == UpTo(MaxFrame, frame.out \o FirstLine[chunk]) IN
    frame' = IF frame.open
             THEN [out |-> out, open |-> Len(out) < MaxFrame /\ ~Contains(chunk, "lf")]
             ELSE frame

(* localize_stream, and the pipe.  Over HTTP/1.1, which the client speaks,  *)
(* no chunk is empty.                                                       *)
ReadsChunk ==
    \E n \in 1 .. Len(text) :
        /\ text' = From(text, n + 1)
        /\ Push(SubSeq(text, 1, n))
        /\ ReadsFrame(SubSeq(text, 1, n))
        /\ UNCHANGED <<whole, ended>>

(* finish: half a byte order mark is a line. *)
FinishesText ==
    LET last == IF splitter.started
                THEN [lines |-> <<>>, buf |-> splitter.buf]
                ELSE Scan[StripBom(splitter.buf)]
    IN  /\ text = <<>> /\ ~ended
        /\ ended' = TRUE
        /\ lines' = lines \o last.lines \o (IF last.buf = <<>> THEN <<>> ELSE <<last.buf>>)
        /\ frame' = [frame EXCEPT !.open = FALSE]
        /\ UNCHANGED <<text, whole, splitter>>

Reads(all) ==
    /\ text = all
    /\ whole = all
    /\ splitter = NewSplitter
    /\ lines = <<>>
    /\ frame = [out |-> <<>>, open |-> TRUE]
    /\ ended = FALSE

LinesNext == ReadsChunk \/ FinishesText

-----------------------------------------------------------------------------
(* However a text is cut into chunks, in the middle of a CR LF or of the    *)
(* byte order mark: the lines of a manifest are those of the whole, none    *)
(* lost, doubled, torn or joined, and none comes too early                  *)
(* (manifests_cases.rs:4,23); and what crosses the pipe is the first line,  *)
(* as far as it fits.                                                       *)
SplitsTheSame ==
    LET all == ReadLines[StripBom(whole)] IN
    /\ IF ended THEN lines = all ELSE IsPrefix(lines, all)
    /\ ~frame.open => frame.out = UpTo(MaxFrame, FirstLine[whole])
=============================================================================
