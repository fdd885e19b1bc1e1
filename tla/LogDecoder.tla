------------------------------ MODULE LogDecoder -------------------------------
(***************************************************************************)
(* The masking of one log pipe: LogDecoder, SecretPattern and LogBuffer of *)
(* crates/application/src/logs.rs.  Bytes arrive one by one (a chunk is    *)
(* nothing but several of them); every secret has a Knuth-Morris-Pratt     *)
(* cursor; bytes that may belong to a secret wait in pending; the rest is  *)
(* put into lines, and the lines into a ring with two budgets.  A byte is  *)
(* a character here: what from_utf8_lossy makes of bytes that are none,    *)
(* and a budget that ends inside a character, are left out.                *)
(***************************************************************************)
EXTENDS Integers, Sequences, FiniteSets

CONSTANTS
  Bytes,      \* the bytes of the text
  Newline,
  SecretSets, \* the sets of secrets to be tried
  MaxRaw,     \* bound on the length of the text
  Star,       \* what a mask is made of
  MaskWidth,  \* the length of a mask
  LineBytes,  \* LINE_BYTES
  LogLines,   \* LOG_LINES
  LogBytes    \* LOG_BYTES

DecoderConstants ==
  /\ \A S \in SecretSets : IsFiniteSet(S) /\ \A s \in S : s \in Seq(Bytes) /\ s # <<>>
  /\ MaxRaw \in Nat /\ MaskWidth \in Nat
  /\ LineBytes \in Nat /\ LogLines \in Nat /\ LogBytes \in Nat

ASSUME DecoderAssumption == DecoderConstants

VARIABLES
  secrets,  \* the secrets, without the empty ones and duplicates
  matched,  \* how much of each secret the text ends with
  pending,  \* bytes not decided yet, each with the secret known to start there
  screen,   \* the line being written and the ring of lines
  raw,      \* history: the text so far
  ended     \* the pipe is closed

decoderVars == <<secrets, matched, pending, screen, raw, ended>>

EmptyScreen == [line |-> <<>>, cut |-> FALSE, lines |-> <<>>, dropped |-> 0, truncated |-> 0]

DecoderInit ==
  /\ secrets \in SecretSets
  /\ matched = [s \in secrets |-> 0]
  /\ pending = <<>>
  /\ screen = EmptyScreen
  /\ raw = <<>>
  /\ ended = FALSE

Biggest(S) == IF S = {} THEN 0 ELSE CHOOSE n \in S : \A m \in S : m <= n

-------------------------------------------------------------------------------
(* The ring of lines *)

\* The field bytes of LogBuffer.
Weight(lines) ==
  LET upTo[n \in 0..Len(lines)] == IF n = 0 THEN 0 ELSE upTo[n - 1] + Len(lines[n]) + 1
  IN upTo[Len(lines)]

Fits(lines) == Len(lines) <= LogLines /\ Weight(lines) <= LogBytes
Without(lines, n) == SubSeq(lines, n + 1, Len(lines))

\* The oldest line goes as long as what is left does not fit.
Evict(sc) ==
  LET gone == CHOOSE n \in 0..Len(sc.lines) :
                Fits(Without(sc.lines, n)) /\ \A m \in 0..(n - 1) : ~Fits(Without(sc.lines, m))
  IN [sc EXCEPT !.lines = Without(@, gone), !.dropped = @ + gone]

\* finish_line and LogBuffer::push.
FinishLine(sc) ==
  Evict([line |-> <<>>, cut |-> FALSE, lines |-> Append(sc.lines, sc.line),
         dropped |-> sc.dropped, truncated |-> sc.truncated + (IF sc.cut THEN 1 ELSE 0)])

Output(sc, byte) ==
  IF byte = Newline THEN FinishLine(sc)
  ELSE IF Len(sc.line) < LineBytes THEN [sc EXCEPT !.line = Append(@, byte)]
  ELSE [sc EXCEPT !.cut = TRUE]

Write(sc, text) ==
  LET upTo[n \in 0..Len(text)] == IF n = 0 THEN sc ELSE Output(upTo[n - 1], text[n])
  IN upTo[Len(text)]

-------------------------------------------------------------------------------
(* The cursor of one secret *)

\* How much of a secret is matched after one more byte, n being matched before:
\* the loop of SecretPattern::new and of advance.
Shrink(secret, table, n, byte) ==
  LET shrink[k \in 0..n] ==
        IF secret[k + 1] = byte THEN k + 1
        ELSE IF k = 0 THEN 0 ELSE shrink[table[k]]
  IN shrink[n]

\* What to go on with when n of the secret are matched and the next byte is another.
Fallback(secret) ==
  LET table[n \in 1..Len(secret)] ==
        IF n = 1 THEN 0 ELSE Shrink(secret, table, table[n - 1], secret[n])
  IN table

\* Len(secret) stands for a match.
Extended(secret, n, byte) == Shrink(secret, Fallback(secret), n, byte)

Restart(secret, n) == IF n = Len(secret) THEN 0 ELSE n

\* advance leaves the cursor on what the next match may share with this one.
Resume(secret, n) == IF n = Len(secret) THEN Fallback(secret)[n] ELSE n

-------------------------------------------------------------------------------
(* feed and flush *)

Mask == [i \in 1..MaskWidth |-> Star]

\* The first pending byte is written, a secret that starts with it as one mask.
FlushFirst(at) ==
  LET first == at.pending[1] IN
  IF first.length = 0
  THEN [pending |-> Tail(at.pending), screen |-> Output(at.screen, first.byte)]
  ELSE [pending |-> SubSeq(at.pending, first.length + 1, Len(at.pending)),
        screen |-> Write(at.screen, Mask)]

Undecided(pend, unresolved) == Len(pend) <= unresolved

\* The bytes that nothing undecided needs are written.
Flush(pend, unresolved, sc) ==
  LET round[n \in 0..Len(pend)] ==
        IF n = 0 THEN [pending |-> pend, screen |-> sc]
        ELSE IF Undecided(round[n - 1].pending, unresolved) THEN round[n - 1]
        ELSE FlushFirst(round[n - 1])
  IN round[Len(pend)]

\* A longer secret that starts at the same byte replaces a shorter one.
Mark(pend, lengths) ==
  [i \in DOMAIN pend |->
    [pend[i] EXCEPT !.length = Biggest({@} \cup {n \in lengths : i = Len(pend) - n + 1})]]

Feed(byte) ==
  LET extended == [s \in secrets |-> Extended(s, matched[s], byte)]
      found == {Len(s) : s \in {x \in secrets : extended[x] = Len(x)}}
      pend == Mark(Append(pending, [byte |-> byte, length |-> 0]), found)
      flushed == Flush(pend, Biggest({matched'[s] : s \in secrets}), screen)
  IN /\ ~ended /\ Len(raw) < MaxRaw
     /\ matched' = [s \in secrets |-> Resume(s, extended[s])]
     /\ pending' = flushed.pending
     /\ screen' = flushed.screen
     /\ raw' = Append(raw, byte)
     /\ UNCHANGED <<secrets, ended>>

End ==
  LET flushed == Flush(pending, 0, screen)
      sc == flushed.screen
  IN /\ ~ended /\ ended' = TRUE
     /\ pending' = flushed.pending
     /\ screen' = IF sc.line # <<>> \/ sc.cut THEN FinishLine(sc) ELSE sc
     /\ UNCHANGED <<secrets, matched, raw>>

DecoderNext == End \/ \E byte \in Bytes : Feed(byte)

DecoderSpec == DecoderInit /\ [][DecoderNext]_decoderVars

-------------------------------------------------------------------------------
(* Properties *)

\* secret stands in text from its i-th byte on.
OccursAt(secret, text, i) ==
  /\ i + Len(secret) - 1 <= Len(text)
  /\ \A j \in 1..Len(secret) : text[i + j - 1] = secret[j]

LongestAt(K, text, i) == Biggest({Len(s) : s \in {x \in K : OccursAt(x, text, i)}})

\* The text with the secrets K masked: from left to right, the longest secret
\* that starts here is a mask, and every other byte is itself.
MaskedText(K, text) ==
  LET from[i \in 1..(Len(text) + 1)] ==
        IF i > Len(text) THEN <<>>
        ELSE IF LongestAt(K, text, i) = 0 THEN <<text[i]>> \o from[i + 1]
        ELSE Mask \o from[i + LongestAt(K, text, i)]
  IN from[1]

\* A text, split at its line ends into the lines it finishes and the rest.
SplitText(text) ==
  LET upTo[n \in 0..Len(text)] ==
        IF n = 0 THEN [lines |-> <<>>, rest |-> <<>>]
        ELSE IF text[n] = Newline
        THEN [lines |-> Append(upTo[n - 1].lines, upTo[n - 1].rest), rest |-> <<>>]
        ELSE [upTo[n - 1] EXCEPT !.rest = Append(@, text[n])]
  IN upTo[Len(text)]

\* The last line counts if there is anything in it.
LinesOf(text) ==
  LET split == SplitText(text) IN
  IF split.rest = <<>> THEN split.lines ELSE Append(split.lines, split.rest)

EndsWith(text, secret, k) ==
  /\ k <= Len(text)
  /\ \A j \in 1..k : text[Len(text) - k + j] = secret[j]

Shortened(lines) ==
  [n \in DOMAIN lines |->
    SubSeq(lines[n], 1, IF Len(lines[n]) > LineBytes THEN LineBytes ELSE Len(lines[n]))]

\* What is shown of a whole log is the newest lines of the leftmost-longest
\* masking of the text, as many as fit, each cut to its budget, and the losses
\* are counted: however the secrets overlap, no part of one is shown.
ShowsTheMaskedText ==
  ended =>
    LET all == LinesOf(MaskedText(secrets, raw))
        short == Shortened(all)
        newest(n) == SubSeq(short, Len(short) - n + 1, Len(short))
        kept == Biggest({n \in 0..Len(short) : n <= LogLines /\ Weight(newest(n)) <= LogBytes})
    IN /\ screen.lines = newest(kept)
       /\ screen.dropped = Len(short) - kept
       /\ screen.truncated = Cardinality({n \in DOMAIN all : Len(all[n]) > LineBytes})

\* A byte waits only as long as it may belong to a secret: what is pending is
\* part of a beginning of a secret, which a later chunk may complete.
OnlyPrefixesWait ==
  ~ended /\ pending # <<>> =>
    \E s \in secrets : \E k \in Len(pending)..(Len(s) - 1) : EndsWith(raw, s, k)

\* Nothing of a secret is shown, nothing else is hidden, and nothing waits
\* without need.
LogIsMasked == ShowsTheMaskedText /\ OnlyPrefixesWait
===============================================================================
