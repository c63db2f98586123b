--------------------------- MODULE FunctionScanProofs ---------------------------
(***************************************************************************)
(* For every text: what is found are functions that do not overlap, the    *)
(* mask agrees with C but for the texts that MaskAgrees excepts, and the   *)
(* loops come to an end.                                                   *)
(***************************************************************************)
EXTENDS FunctionScan, WellFoundedInduction, TLAPS

\* The type invariant that the proof needs.
Phases == {"mask", "directive", "line", "block", "literal", "scan", "candidate", "done", "error"}
ScanTypes ==
  /\ N \in Nat /\ phase \in Phases
  /\ i \in Nat /\ 1 <= i /\ segStart \in Nat /\ 1 <= segStart
  /\ cand \in [at : Nat, close : Nat, ctor : BOOLEAN]
  /\ spans \subseteq [at : Nat, first : Nat, last : Nat]

\* The parser is past what it has found: the current statement starts behind all functions,
\* a candidate lies in it, and the position is past the candidate's parameters.
ScanIsPast ==
  /\ phase \in {"scan", "candidate"} => segStart <= i /\ \A s \in spans : s.last < segStart
  /\ phase = "candidate" =>
       segStart <= cand.at /\ cand.at < cand.close /\ cand.close <= i /\ cand.close <= N + 1

\* Before the scan nothing is found.
MaskFindsNothing == phase \notin {"scan", "candidate", "done", "error"} => spans = {} /\ segStart = 1

\* The inductive invariant.
ScanInv == ScanTypes /\ ScanIsPast /\ MaskFindsNothing /\ SpansApart

-----------------------------------------------------------------------------
(* Proofs *)

\* Skipping blanks or a bracketed part goes forward, and at most past the end.
LEMMA Skips ==
  ASSUME N \in Nat, NEW a \in Nat
  PROVE  /\ \A e \in Braces(a) \cup Parens(a) : e \in Nat /\ e <= N + 1 /\ (a <= N => a < e)
         /\ \A e \in Unblanked(a) : e \in Nat /\ a <= e
<1>1. ASSUME NEW open, NEW close, NEW e \in Closed(a, open, close)
      PROVE  e \in Nat /\ e <= N + 1 /\ (a <= N => a < e)
  BY <1>1 DEF Closed
<1>2. \A e \in Unblanked(a) : e \in Nat /\ a <= e
  BY DEF Unblanked
<1> QED BY <1>1, <1>2 DEF Braces, Parens

LEMMA ScanStarts == Init => ScanInv
<1> SUFFICES ASSUME Init PROVE ScanInv
  OBVIOUS
<1>1. N \in Nat
  BY TextsAssumption DEF Init, N
<1> QED BY <1>1 DEF Init, ScanInv, ScanTypes, Phases, NoCand, ScanIsPast, MaskFindsNothing, SpansApart

\* The mask leaves the scan alone.
LEMMA MaskKeeps == ASSUME ScanInv, Mask PROVE ScanInv'
<1>1. /\ phase \in {"mask", "directive", "line", "block", "literal"}
      /\ UNCHANGED <<text, scanning>>
      /\ phase' \in {"mask", "directive", "line", "block", "literal", "scan"}
      /\ i' \in Nat /\ 1 <= i'
  BY DEF ScanInv, ScanTypes, Mask, Masks, Stay, AtCode, MaskNewline, MaskIndent, MaskDirective,
         Directive, MaskLineComment, LineComment, MaskBlockComment, BlockComment, MaskLiteral,
         Literal, MaskOther, MaskEnds
<1>2. spans' = {} /\ segStart' = 1 /\ cand' = cand /\ N' = N
  BY <1>1 DEF ScanInv, MaskFindsNothing, scanning, N
<1> QED BY <1>1, <1>2 DEF ScanInv, ScanTypes, Phases, ScanIsPast, MaskFindsNothing, SpansApart

LEMMA AcceptKeeps == ASSUME ScanInv, Accept PROVE ScanInv'
<1>1. PICK end \in Braces(i), sig \in Unblanked(segStart) :
        /\ spans' = spans \cup {[at |-> cand.at,
                                 first |-> IF sig <= cand.at THEN sig ELSE cand.at,
                                 last |-> end - 1]}
        /\ i' = end /\ segStart' = end
  BY DEF Accept
<1>2. phase = "candidate" /\ i <= N /\ phase' = "scan" /\ cand' = NoCand /\ N' = N
  BY DEF Accept, Tries, Keep, masking, N
<1>3. /\ N \in Nat /\ i \in Nat /\ 1 <= i /\ segStart \in Nat /\ 1 <= segStart
      /\ cand.at \in Nat /\ cand.close \in Nat
      /\ segStart <= cand.at /\ cand.at < cand.close /\ cand.close <= i
      /\ spans \subseteq [at : Nat, first : Nat, last : Nat]
      /\ \A s \in spans : s.last < segStart
  BY <1>2 DEF ScanInv, ScanTypes, ScanIsPast
<1>4. end \in Nat /\ i < end /\ end <= N + 1 /\ sig \in Nat /\ segStart <= sig
  BY <1>2, <1>3, Skips
<1> DEFINE first == IF sig <= cand.at THEN sig ELSE cand.at
           f == [at |-> cand.at, first |-> first, last |-> end - 1]
<1>a. first \in Nat /\ segStart <= first /\ first <= cand.at
  BY <1>3, <1>4
<1> HIDE DEF first
<1>5. /\ f \in [at : Nat, first : Nat, last : Nat]
      /\ segStart <= f.first /\ f.first <= f.at /\ f.at < f.last /\ f.last <= N /\ f.last < end
  BY <1>2, <1>3, <1>4, <1>a
<1>6. spans' = spans \cup {f}
  BY <1>1 DEF first
<1> HIDE DEF f
<1>7. \A s \in spans : s.last \in Nat /\ s.last < f.first /\ s.last < end
  BY <1>3, <1>4, <1>5
<1>8. SpansApart'
  BY <1>2, <1>3, <1>5, <1>6, <1>7 DEF ScanInv, SpansApart
<1>9. ScanTypes'
  BY <1>1, <1>2, <1>3, <1>4, <1>5, <1>6 DEF ScanTypes, Phases, NoCand
<1>10. ScanIsPast' /\ MaskFindsNothing'
  BY <1>1, <1>2, <1>4, <1>5, <1>6, <1>7 DEF ScanIsPast, MaskFindsNothing
<1> QED BY <1>8, <1>9, <1>10 DEF ScanInv

\* A step of the scan that only goes forward.
LEMMA ForwardKeeps ==
  ASSUME ScanInv, UNCHANGED <<text, segStart, spans>>, phase \in {"scan", "candidate"},
         i' \in Nat, i <= i',
         \/ /\ phase' = phase /\ cand'.at = cand.at /\ cand'.close = cand.close
            /\ cand' \in [at : Nat, close : Nat, ctor : BOOLEAN]
         \/ phase' \in {"scan", "done", "error"} /\ cand' \in {cand, NoCand}
  PROVE  ScanInv'
<1>1. N' = N
  BY DEF N
<1>2. cand' \in [at : Nat, close : Nat, ctor : BOOLEAN] /\ phase' \in Phases
  <2>1. NoCand \in [at : Nat, close : Nat, ctor : BOOLEAN]
    BY DEF NoCand
  <2> QED BY <2>1 DEF ScanInv, ScanTypes, Phases
<1>3. ScanTypes'
  BY <1>1, <1>2 DEF ScanInv, ScanTypes
<1>4. ScanIsPast'
  BY <1>1 DEF ScanInv, ScanTypes, ScanIsPast
<1> QED BY <1>1, <1>3, <1>4 DEF ScanInv, MaskFindsNothing, SpansApart

\* A step that starts a new statement at or before its new position.
LEMMA RestartKeeps ==
  ASSUME ScanInv, UNCHANGED <<text, spans, cand>>, phase = "scan", phase' = "scan",
         i' \in Nat, segStart' = i', i < i'
  PROVE  ScanInv'
<1>1. N' = N
  BY DEF N
<1>2. ScanTypes' /\ ScanIsPast'
  BY <1>1 DEF ScanInv, ScanTypes, ScanIsPast
<1> QED BY <1>1, <1>2 DEF ScanInv, MaskFindsNothing, SpansApart

LEMMA ScanKeeps == ASSUME ScanInv, Scan PROVE ScanInv'
<1>0. /\ N \in Nat /\ i \in Nat /\ 1 <= i
      /\ cand \in [at : Nat, close : Nat, ctor : BOOLEAN]
  BY DEF ScanInv, ScanTypes
<1>1. CASE Accept
  BY <1>1, AcceptKeeps
<1>2. CASE EndStatement
  <2>1. UNCHANGED <<text, spans, cand, phase>> /\ phase = "scan" /\ segStart' = i + 1 /\ i' = i + 1
    BY <1>2 DEF EndStatement, Scans, Keep, masking
  <2> QED BY <1>0, <2>1, RestartKeeps
<1>3. CASE OpenBlock
  <2>1. PICK end \in (IF Transparent \/ TypeBody THEN {i + 1} ELSE Braces(i)) :
          segStart' = end /\ i' = end
    BY <1>3 DEF OpenBlock
  <2>2. i <= N /\ phase = "scan" /\ phase' = "scan" /\ UNCHANGED <<text, cand, spans>>
    BY <1>3 DEF OpenBlock, Scans, Keep, masking
  <2>3. end = i + 1 \/ end \in Braces(i)
    BY <2>1
  <2>4. end \in Nat /\ i < end
    BY <1>0, <2>2, <2>3, Skips
  <2> QED BY <2>1, <2>2, <2>4, RestartKeeps
<1>4. CASE Identifier
  <2>1. UNCHANGED <<text, segStart, spans>> /\ phase = "scan" /\ i <= N
    BY <1>4 DEF Identifier, Scans, Keep, masking
  <2>2. PICK after \in Unblanked(i + 1) :
          \/ i' = i + 1 /\ phase' = phase /\ cand' = cand
          \/ /\ At(after, {"("})
             /\ \E close \in Parens(after) :
                  /\ cand' = [at |-> i, close |-> close, ctor |-> FALSE]
                  /\ i' = close /\ phase' = "candidate"
    BY <1>4 DEF Identifier
  <2>3. after \in Nat /\ i < after
    BY <1>0, <2>2, Skips
  <2>4. CASE i' = i + 1 /\ phase' = phase /\ cand' = cand
    BY <1>0, <2>1, <2>4, ForwardKeeps
  <2>5. ASSUME At(after, {"("}), NEW close \in Parens(after),
               cand' = [at |-> i, close |-> close, ctor |-> FALSE], i' = close,
               phase' = "candidate"
        PROVE  ScanInv'
    <3>1. after <= N
      BY <2>5 DEF At
    <3>2. close \in Nat /\ i < close /\ close <= N + 1
      BY <1>0, <2>3, <2>5, <3>1, Skips
    <3>3. N' = N
      BY <2>1 DEF N
    <3>4. ScanTypes'
      BY <1>0, <2>1, <2>5, <3>2, <3>3 DEF ScanInv, ScanTypes, Phases
    <3>5. ScanIsPast'
      BY <1>0, <2>1, <2>5, <3>2, <3>3 DEF ScanInv, ScanTypes, ScanIsPast
    <3> QED BY <2>1, <2>5, <3>3, <3>4, <3>5 DEF ScanInv, MaskFindsNothing, SpansApart
  <2> QED BY <2>2, <2>4, <2>5
<1>5. CASE Raise
  BY <1>0, <1>5, ForwardKeeps DEF Raise, Keep, masking, scanning
<1>6. CASE Other \/ TryBlank
  <2>1. /\ UNCHANGED <<text, phase, segStart, cand, spans>> /\ i' = i + 1
        /\ phase \in {"scan", "candidate"}
    BY <1>6 DEF Other, TryBlank, Scans, Tries, Keep, masking, scanning
  <2> QED BY <1>0, <2>1, ForwardKeeps
<1>7. CASE RejectHere \/ RejectOther
  <2>1. UNCHANGED <<text, segStart, spans>> /\ phase = "candidate"
    BY <1>7 DEF RejectHere, RejectOther, Tries, Keep, masking
  <2>2. Reject(i) \/ Reject(i + 1)
    BY <1>7 DEF RejectHere, RejectOther
  <2> QED BY <1>0, <2>1, <2>2, ForwardKeeps DEF Reject
<1>8. CASE TryPast
  <2>1. /\ cand'.at = cand.at /\ cand'.close = cand.close
        /\ cand' \in [at : Nat, close : Nat, ctor : BOOLEAN]
    <3>1. cand' = cand \/ cand' = [cand EXCEPT !.ctor = TRUE]
      BY <1>8 DEF TryPast
    <3> QED BY <1>0, <3>1
  <2>2. /\ i' = i + 1 \/ i' = i + 2
        /\ phase = "candidate" /\ UNCHANGED <<text, phase, segStart, spans>>
    BY <1>8 DEF TryPast, Tries, Keep, masking
  <2> QED BY <1>0, <2>1, <2>2, ForwardKeeps
<1>9. CASE TryWord
  <2>1. UNCHANGED <<text, segStart, spans>> /\ phase = "candidate"
    BY <1>9 DEF TryWord, Tries, Keep, masking
  <2>2. PICK after \in Unblanked(i + 1) :
          \/ i' = i + 1 /\ UNCHANGED <<phase, cand>>
          \/ At(after, {"("}) /\ i' \in Parens(after) /\ UNCHANGED <<phase, cand>>
          \/ Reject(i)
    BY <1>9 DEF TryWord
  <2>3. after \in Nat /\ i < after
    BY <1>0, <2>2, Skips
  <2>4. ASSUME At(after, {"("}), i' \in Parens(after) PROVE i' \in Nat /\ i <= i'
    <3>1. after <= N
      BY <2>4 DEF At
    <3> QED BY <1>0, <2>3, <2>4, <3>1, Skips
  <2>5. i' \in Nat /\ i <= i'
    BY <1>0, <2>2, <2>4 DEF Reject
  <2>6. \/ UNCHANGED <<phase, cand>>
        \/ phase' = "scan" /\ cand' = NoCand
    BY <2>2 DEF Reject
  <2> QED BY <1>0, <2>1, <2>5, <2>6, ForwardKeeps
<1>10. CASE RejectAtEnd
  <2>1. /\ UNCHANGED <<text, segStart, spans>> /\ phase = "candidate" /\ phase' = "scan"
        /\ i' = cand.close /\ cand' = NoCand /\ N' = N
    BY <1>10 DEF RejectAtEnd, Reject, Keep, masking, N
  <2>2. ScanTypes'
    BY <1>0, <2>1 DEF ScanInv, ScanTypes, ScanIsPast, Phases, NoCand
  <2>3. ScanIsPast'
    BY <1>0, <2>1 DEF ScanInv, ScanTypes, ScanIsPast
  <2> QED BY <2>1, <2>2, <2>3 DEF ScanInv, MaskFindsNothing, SpansApart
<1>11. CASE ScanEnds
  BY <1>0, <1>11, ForwardKeeps DEF ScanEnds, Keep, masking, scanning
<1> QED BY <1>1, <1>2, <1>3, <1>4, <1>5, <1>6, <1>7, <1>8, <1>9, <1>10, <1>11 DEF Scan

LEMMA ScanInvStutters == ASSUME ScanInv, UNCHANGED vars PROVE ScanInv'
BY DEF vars, scanning, ScanInv, ScanTypes, ScanIsPast, MaskFindsNothing, SpansApart, N

LEMMA ScanStep == ASSUME ScanInv, [Next]_vars PROVE ScanInv'
BY MaskKeeps, ScanKeeps, ScanInvStutters DEF Next

\* The functions that extract_functions finds in any text do not overlap, and each runs from
\* its signature to a closing brace inside the text.
THEOREM FunctionsApart == Spec => []SpansApart
<1>1. ScanInv /\ [Next]_vars => ScanInv'
  BY ScanStep
<1>2. ScanInv => SpansApart
  BY DEF ScanInv
<1> QED BY <1>1, <1>2, ScanStarts, PTL DEF Spec

-----------------------------------------------------------------------------
(***************************************************************************)
(* That what is found are functions.                                       *)
(***************************************************************************)

\* A candidate has its parameters, and nothing met since then decided it.
CandidateFits ==
  phase = "candidate" =>
    \A a, c, b \in Nat : a = cand.at /\ c = cand.close /\ b = i =>
      Declares(a, c) /\ Undecided(c, b)

\* While the text is scanned the mask stays, and with it what its brackets enclose.
LEMMA MaskStays ==
  ASSUME UNCHANGED <<text, masked>>
  PROVE  /\ \A a, c : Declares(a, c)' <=> Declares(a, c)
         /\ \A a, b : Undecided(a, b)' <=> Undecided(a, b)
         /\ \A a : Braces(a)' = Braces(a)
<1>1. N' = N
  BY DEF N
<1>2. \A S, a, b : Count(S, a, b)' = Count(S, a, b)
  BY DEF Count
<1>3. \A a, open, close : Closed(a, open, close)' = Closed(a, open, close)
  <2> SUFFICES ASSUME NEW a, NEW open, NEW close
               PROVE  Closed(a, open, close)' = Closed(a, open, close)
    OBVIOUS
  <2> DEFINE closes == {k \in a..N : masked[k] = close
                                     /\ Count({open}, a, k) = Count({close}, a, k)}
  <2>1. closes' = closes
    BY <1>1, <1>2
  <2>2. Closed(a, open, close) = {k + 1 : k \in {c \in closes : \A d \in closes : c <= d}}
                                   \cup (IF closes = {} THEN {N + 1} ELSE {})
    BY DEF Closed
  <2>3. Closed(a, open, close)' = {k + 1 : k \in {c \in closes' : \A d \in closes' : c <= d}}
                                    \cup (IF closes' = {} THEN {N' + 1} ELSE {})
    BY DEF Closed
  <2> HIDE DEF closes
  <2> QED BY <1>1, <2>1, <2>2, <2>3
<1>4. \A a : Parens(a)' = Parens(a) /\ Braces(a)' = Braces(a)
  BY <1>3 DEF Parens, Braces
<1>5. \A a : Unblanked(a)' = Unblanked(a)
  BY <1>1 DEF Unblanked
<1>6. \A a, c : Declares(a, c)' <=> Declares(a, c)
  BY <1>1, <1>4, <1>5 DEF Declares, At
<1>7. \A a, b : Undecided(a, b)' <=> Undecided(a, b)
  BY <1>4 DEF Undecided, Enclosed, Decides
<1> QED BY <1>4, <1>6, <1>7

\* A step that finds nothing and does not touch the candidate, or gives it up.
LEMMA NothingFound ==
  ASSUME SpansAreFunctions, UNCHANGED <<text, masked, spans>>
  PROVE  SpansAreFunctions'
BY MaskStays DEF SpansAreFunctions

\* A body makes the candidate a function.
LEMMA AcceptFinds ==
  ASSUME ScanInv, CandidateFits, SpansAreFunctions, Accept
  PROVE  SpansAreFunctions'
<1>1. PICK end \in Braces(i), sig \in Unblanked(segStart) :
        spans' = spans \cup {[at |-> cand.at,
                              first |-> IF sig <= cand.at THEN sig ELSE cand.at,
                              last |-> end - 1]}
  BY DEF Accept
<1>2. phase = "candidate" /\ i <= N /\ masked[i] = "{" /\ UNCHANGED <<text, masked>>
  BY DEF Accept, Tries, Keep
<1>3. /\ N \in Nat /\ i \in Nat /\ segStart \in Nat
      /\ cand.at \in Nat /\ cand.close \in Nat
      /\ 1 <= segStart /\ segStart <= cand.at /\ cand.at < cand.close /\ cand.close <= i
  BY <1>2 DEF ScanInv, ScanTypes, ScanIsPast
<1>4. end \in Nat /\ i < end /\ end <= N + 1 /\ sig \in Nat /\ segStart <= sig
  BY <1>2, <1>3, Skips
<1>5. Declares(cand.at, cand.close) /\ Undecided(cand.close, i)
  BY <1>2, <1>3 DEF CandidateFits
<1>6. masked[IF sig <= cand.at THEN sig ELSE cand.at] \notin Blanks
  <2>1. masked[cand.at] \in Words \ Keywords
    BY <1>5 DEF Declares
  <2>2. masked[cand.at] \notin Blanks
    BY <2>1, NamesAssumption DEF Words, Keywords, PostParen, TypeWords, Blanks
  <2>3. sig <= cand.at => sig <= N
    <3>1. i <= N
      BY <1>2
    <3> QED BY <1>3, <1>4, <3>1
  <2>4. sig <= cand.at => masked[sig] \notin Blanks
    BY <1>4, <2>3 DEF Unblanked
  <2> QED BY <2>2, <2>4
<1> DEFINE f == [at |-> cand.at, first |-> IF sig <= cand.at THEN sig ELSE cand.at, last |-> end - 1]
<1>7. /\ masked[f.first] \notin Blanks
      /\ \E body \in f.at..f.last :
           /\ masked[body] = "{" /\ f.last + 1 \in Braces(body)
           /\ \E c \in f.at..body : Declares(f.at, c) /\ Undecided(c, body)
  <2>1. f.last + 1 = end /\ cand.close \in f.at..i /\ i \in f.at..f.last
    BY <1>3, <1>4
  <2>2. f.at = cand.at /\ f.first = (IF sig <= cand.at THEN sig ELSE cand.at)
    OBVIOUS
  <2> HIDE DEF f
  <2> QED BY <1>2, <1>5, <1>6, <2>1, <2>2
<1>8. spans' = spans \cup {f}
  BY <1>1
<1> HIDE DEF f
<1> QED BY <1>2, <1>7, <1>8, MaskStays DEF SpansAreFunctions

\* A name with parentheses becomes a candidate.
LEMMA IdentifierFits ==
  ASSUME ScanInv, Identifier
  PROVE  CandidateFits'
<1>1. UNCHANGED <<text, masked>> /\ phase = "scan" /\ masked[i] \in Words
  BY DEF Identifier, Scans, Keep
<1>2. CASE phase' = "scan"
  BY <1>2 DEF CandidateFits
<1>3. CASE phase' # "scan"
  <2>1. PICK after \in Unblanked(i + 1) :
          /\ At(after, {"("}) /\ masked[i] \notin Keywords
          /\ \E close \in Parens(after) :
               cand' = [at |-> i, close |-> close, ctor |-> FALSE] /\ i' = close
    BY <1>1, <1>3 DEF Identifier
  <2>2. PICK close \in Parens(after) :
          cand' = [at |-> i, close |-> close, ctor |-> FALSE] /\ i' = close
    BY <2>1
  <2>3. Declares(i, close)
    BY <1>1, <2>1, <2>2 DEF Declares
  <2>4. ASSUME close \in Nat PROVE Undecided(close, close)
    <3>1. \A k \in close..(close - 1) : FALSE
      BY <2>4
    <3> QED BY <3>1 DEF Undecided
  <2>5. \A a, c, b \in Nat : a = cand'.at /\ c = cand'.close /\ b = i' =>
          Declares(a, c) /\ Undecided(c, b)
    BY <2>2, <2>3, <2>4
  <2> QED BY <1>1, <2>5, MaskStays DEF CandidateFits
<1> QED BY <1>2, <1>3

\* Two parts of the text that decide nothing decide nothing together.
LEMMA GoesPast ==
  ASSUME NEW c \in Nat, NEW k \in Nat, NEW m \in Nat, c <= k, k <= m,
         Undecided(c, k), Undecided(k, m)
  PROVE  Undecided(c, m)
<1> SUFFICES ASSUME NEW x \in c..(m - 1), Decides(x)
             PROVE  Enclosed(c, x)
  BY DEF Undecided
<1>0. x \in Int /\ (x \in c..(k - 1) \/ x \in k..(m - 1))
  OBVIOUS
<1>1. CASE x \in c..(k - 1)
  BY <1>1 DEF Undecided
<1>2. CASE x \in k..(m - 1)
  <2>1. Enclosed(k, x)
    BY <1>2 DEF Undecided
  <2>2. \A open \in k..(x - 1) : open \in c..(x - 1)
    BY <1>0
  <2> QED BY <2>1, <2>2 DEF Enclosed
<1> QED BY <1>0, <1>1, <1>2

\* A candidate that is not given up stays one that fits.
LEMMA CandidateGoesOn ==
  ASSUME ScanInv, CandidateFits, phase = "candidate", i <= N, i' \in Nat, i <= i',
         UNCHANGED <<text, masked>>, cand'.at = cand.at, cand'.close = cand.close,
         Undecided(i, i')
  PROVE  CandidateFits'
<1>1. /\ i \in Nat /\ cand.at \in Nat /\ cand.close \in Nat /\ cand.close <= i
  BY DEF ScanInv, ScanTypes, ScanIsPast
<1>2. Declares(cand.at, cand.close) /\ Undecided(cand.close, i)
  BY <1>1 DEF CandidateFits
<1>3. Undecided(cand.close, i')
  BY <1>1, <1>2, GoesPast
<1>4. \A a, c, b \in Nat : a = cand'.at /\ c = cand'.close /\ b = i' =>
        Declares(a, c) /\ Undecided(c, b)
  BY <1>2, <1>3
<1> QED BY <1>4, MaskStays DEF CandidateFits

\* The words of an attribute or an initializer, and their parentheses, are passed over.
LEMMA TryWordFits ==
  ASSUME ScanInv, CandidateFits, TryWord, phase' = "candidate"
  PROVE  CandidateFits'
<1>1. phase = "candidate" /\ i <= N /\ masked[i] \in Words /\ UNCHANGED <<text, masked>>
  BY DEF TryWord, Tries, Keep
<1>2. N \in Nat /\ i \in Nat
  BY DEF ScanInv, ScanTypes
<1>3. PICK after \in Unblanked(i + 1) :
        /\ UNCHANGED cand
        /\ \/ i' = i + 1
           \/ At(after, {"("}) /\ i' \in Parens(after)
  BY <1>1 DEF TryWord, Reject
<1>4. ~Decides(i)
  BY <1>1, NamesAssumption DEF Decides, Words, Keywords, PostParen, TypeWords, Marks
<1>5. CASE i' = i + 1
  <2>1. \A x \in i..(i' - 1) : x = i
    BY <1>2, <1>5
  <2>2. Undecided(i, i')
    BY <1>4, <2>1 DEF Undecided
  <2> QED BY <1>1, <1>2, <1>3, <1>5, <2>2, CandidateGoesOn
<1>6. CASE At(after, {"("}) /\ i' \in Parens(after)
  <2>0. after <= N /\ masked[after] = "("
    BY <1>6 DEF At
  <2>1. after \in Nat /\ i \in Nat /\ i < after
    BY <1>2, <1>3, Skips
  <2>2. i' \in Nat /\ after < i'
    BY <1>2, <1>6, <2>0, <2>1, Skips
  <2>3. \A x \in (i + 1)..(after - 1) : masked[x] \in Blanks
    BY <1>3 DEF Unblanked
  <2>4. \A x \in i..(i' - 1) : x \in Nat /\ x < i'
    <3>1. \A a, b \in Nat : \A x \in a..(b - 1) : x \in Nat /\ x < b
      OBVIOUS
    <3> QED BY <2>1, <2>2, <3>1
  <2>5. ASSUME NEW x \in i..(i' - 1), Decides(x)
        PROVE  Enclosed(i, x)
    <3>1. x = i \/ x \in (i + 1)..(after - 1) \/ x = after \/ after < x
      BY <1>2, <2>1, <2>2
    <3>2. x \notin (i + 1)..(after - 1)
      BY <2>3, <2>5 DEF Blanks, Decides
    <3>3. x # i /\ x # after
      BY <1>4, <2>0, <2>5 DEF Decides
    <3>4. after \in i..(x - 1) /\ x < i'
      <4>1. after \in Nat /\ i < after /\ i \in Nat /\ i' \in Nat
        BY <2>1, <2>2
      <4>2. x \in Nat /\ x < i'
        BY <2>4
      <4>3. after < x
        BY <3>1, <3>2, <3>3
      <4>4. after \in i..(x - 1)
        BY <4>1, <4>2, <4>3
      <4> QED BY <4>2, <4>4
    <3>5. masked[after] = "(" /\ \E end \in Parens(after) : x < end
      BY <1>6, <2>0, <3>4
    <3> QED BY <3>4, <3>5 DEF Enclosed
  <2>6. Undecided(i, i')
    BY <2>5 DEF Undecided
  <2> QED BY <1>1, <1>2, <1>3, <2>1, <2>2, <2>6, CandidateGoesOn
<1> QED BY <1>3, <1>5, <1>6

\* So are blanks and the marks of initializers and trailing types.
LEMMA TryPastFits ==
  ASSUME ScanInv, CandidateFits, TryBlank \/ TryPast
  PROVE  CandidateFits'
<1>1. phase = "candidate" /\ i <= N /\ UNCHANGED <<text, masked>>
  BY DEF TryBlank, TryPast, Tries, Keep
<1>2. N \in Nat /\ i \in Nat /\ cand \in [at : Nat, close : Nat, ctor : BOOLEAN]
  BY DEF ScanInv, ScanTypes
<1>3. ~Decides(i) /\ (i' = i + 1 \/ (i' = i + 2 /\ ~Decides(i + 1)))
  <2>1. CASE TryBlank
    BY <2>1 DEF TryBlank, Blanks, Decides
  <2>2. CASE TryPast
    <3>1. masked[i] \in {",", ":", "-"}
      BY <2>2 DEF TryPast
    <3>2. i' = i + 1 \/ (i' = i + 2 /\ masked[i + 1] = ">")
      BY <2>2 DEF TryPast, At
    <3> QED BY <3>1, <3>2 DEF Decides
  <2> QED BY <2>1, <2>2
<1>4. cand'.at = cand.at /\ cand'.close = cand.close
  <2>1. cand' = cand \/ cand' = [cand EXCEPT !.ctor = TRUE]
    BY DEF TryBlank, TryPast, scanning
  <2> QED BY <1>2, <2>1
<1>5. \A x \in i..(i' - 1) : x = i \/ (i' = i + 2 /\ x = i + 1)
  BY <1>2, <1>3
<1>6. Undecided(i, i')
  BY <1>3, <1>5 DEF Undecided
<1>7. i' \in Nat /\ i <= i'
  BY <1>2, <1>3
<1> QED BY <1>1, <1>2, <1>4, <1>6, <1>7, CandidateGoesOn

\* The inductive invariant of what is found.
FoundInv == CandidateFits /\ SpansAreFunctions

\* No step of the parser breaks it.
LEMMA FoundStep ==
  ASSUME ScanInv, FoundInv, [Next]_vars
  PROVE  FoundInv'
<1> USE DEF FoundInv
<1>1. CASE Mask
  <2>1. /\ phase \notin {"scan", "candidate", "done", "error"} /\ phase' # "candidate"
        /\ UNCHANGED scanning
    BY <1>1 DEF Mask, Masks, Stay, AtCode, MaskNewline, MaskIndent, MaskDirective, Directive,
                MaskLineComment, LineComment, MaskBlockComment, BlockComment, MaskLiteral,
                Literal, MaskOther, MaskEnds
  <2>2. spans' = {}
    BY <2>1 DEF ScanInv, MaskFindsNothing, scanning
  <2> QED BY <2>1, <2>2 DEF CandidateFits, SpansAreFunctions
<1>2. CASE Accept
  <2>1. phase' = "scan"
    BY <1>2 DEF Accept
  <2> QED BY <1>2, <2>1, AcceptFinds DEF CandidateFits
<1>3. CASE Scan /\ ~Accept
  <2>1. UNCHANGED <<text, masked, spans>>
    BY <1>3 DEF Scan, Scans, Tries, Keep, EndStatement, OpenBlock, Identifier, Raise, Other,
                TryBlank, RejectHere, TryPast, TryWord, RejectOther, RejectAtEnd, ScanEnds, scanning
  <2>2. SpansAreFunctions'
    BY <2>1, NothingFound
  <2>3. phase' = "candidate" => Identifier \/ TryBlank \/ TryPast \/ TryWord
    BY <1>3 DEF Scan, Scans, Tries, Reject, EndStatement, OpenBlock, Raise, Other,
                RejectHere, RejectOther, RejectAtEnd, ScanEnds
  <2>4. CandidateFits'
    <3>1. CASE phase' # "candidate"
      BY <3>1 DEF CandidateFits
    <3>2. CASE phase' = "candidate"
      BY <2>3, <3>2, IdentifierFits, TryPastFits, TryWordFits
    <3> QED BY <3>1, <3>2
  <2> QED BY <2>2, <2>4
<1>4. CASE UNCHANGED vars
  <2>1. UNCHANGED <<text, masked, spans, phase, cand, i>>
    BY <1>4 DEF vars, scanning
  <2>2. CandidateFits'
    BY <2>1, MaskStays DEF CandidateFits
  <2> QED BY <2>1, <2>2, NothingFound
<1> QED BY <1>1, <1>2, <1>3, <1>4 DEF Next

\* Whatever the text, each function that extract_functions finds is a name with parameters,
\* then nothing that ends a declaration, and a body up to its closing brace; and no two of
\* them overlap.
THEOREM FunctionsSound == Spec => []FunctionsAreSound
<1>1. Init => ScanInv /\ FoundInv
  BY ScanStarts DEF Init, FoundInv, CandidateFits, SpansAreFunctions
<1>2. ScanInv /\ FoundInv /\ [Next]_vars => ScanInv' /\ FoundInv'
  BY ScanStep, FoundStep
<1>3. ScanInv /\ FoundInv => FunctionsAreSound
  BY DEF ScanInv, FoundInv, FunctionsAreSound
<1> QED BY <1>1, <1>2, <1>3, PTL DEF Spec

-----------------------------------------------------------------------------
(***************************************************************************)
(* That the mask agrees with C, but for the places of Departs.             *)
(***************************************************************************)

\* The text with everything hidden up to position n.
HiddenUpto(n) == [k \in 1..N |-> IF k <= n /\ Hidden(k) /\ text[k] # "nl" THEN "sp" ELSE text[k]]

LexicalState == [line : {"start", "code", "directive"},
                 token : {"none", "line", "open", "block", "close"} \cup Quotes,
                 escaped : BOOLEAN]

\* The text is C, and nowhere does _mask do what C does not.
Plain == ~Unclosed /\ \A k \in 1..N : ~Departs(k)

\* The loop of _mask that is at position n, in its states, agrees with the lexical state of C.
\* In a literal it is never in the middle of a line's continuation.
LexesAt(mode, start, q, n) ==
  n <= N =>
    LET s == Lexed[n - 1] IN
    /\ s \in LexicalState
    /\ mode = "mask" =>
         \/ /\ s.token = "none" /\ s.line # "directive"
            /\ text[n] = "nl" \/ (start = TRUE /\ Indented(n)) \/ (start = FALSE /\ ~Indented(n))
         \/ s.token = "line" /\ s.line # "directive" /\ start = FALSE /\ text[n] = "nl"
    /\ mode = "directive" =>
         s.line = "directive" \/ (s.line = "start" /\ s.token = "none" /\ text[n] = "#")
    /\ mode = "line" =>
         /\ start = FALSE /\ s.line # "directive"
         /\ s.token = "line" \/ (s.token = "none" /\ text[n] = "/" /\ Is(n + 1, {"/"}))
    /\ mode = "block" => start = FALSE /\ s.line # "directive" /\ s.token = "block"
    /\ mode = "literal" =>
         /\ start = FALSE /\ s.line # "directive"
         /\ q \in Quotes /\ s.token = q /\ s.escaped = FALSE
         /\ Spliced(n) => text[n] = "\\"

\* The inductive invariant: what is before the position is masked, nothing behind it.
Modes == {"mask", "directive", "line", "block", "literal"}
MaskInv ==
  IF phase \in Modes
  THEN /\ i <= N + 1 /\ masked = HiddenUpto(i - 1)
       /\ LexesAt(phase, lineStart, quote, i)
  ELSE masked = HiddenUpto(N)

-----------------------------------------------------------------------------

\* Every set of numbers has a least one: from the library, as a fact about sets.
LEMMA LeastNumber ==
  ASSUME NEW T \in SUBSET Nat, T # {}
  PROVE  \E n \in T : \A m \in T : n <= m
<1> DEFINE R == OpToRel(<, Nat)
<1>1. IsWellFoundedOn(R, Nat)
  BY NatLessThanWellFounded
<1>2. \A x, y \in Nat : <<x, y>> \in R <=> x < y
  BY DEF OpToRel
<1> HIDE DEF R
<1>3. PICK n \in T : \A m \in T : ~ (<<m, n>> \in R)
  <2>1. T \subseteq Nat
    OBVIOUS
  <2> QED BY <1>1, <2>1, WFMin
<1>4. \A m \in T : m \in Nat /\ n \in Nat /\ ~ (m < n)
  BY <1>2, <1>3
<1> HIDE DEF R
<1> QED BY <1>4

\* Functions that satisfy the recursion of Lexed up to n exist for all n.
Fits(f, n) == f = [k \in 0..n |-> IF k = 0 THEN LineStart ELSE Lexes(f[k - 1], k)]

LEMMA LexedExists == \A n \in Nat : \E f : Fits(f, n)
<1> DEFINE T == {n \in Nat : ~ \E f : Fits(f, n)}
<1>1. SUFFICES ASSUME T # {} PROVE FALSE
  OBVIOUS
<1>2. PICK n \in T : \A m \in T : n <= m
  <2>1. T \in SUBSET Nat
    OBVIOUS
  <2> HIDE DEF T
  <2> QED BY <1>1, <2>1, LeastNumber
<1>3. n \in Nat /\ ~ \E f : Fits(f, n)
  OBVIOUS
<1>4. CASE n = 0
  <2>1. Fits([k \in 0..0 |-> LineStart], 0)
    BY DEF Fits
  <2> QED BY <1>3, <1>4, <2>1
<1>5. CASE n # 0
  <2>1. n - 1 \in Nat /\ n - 1 \notin T
    BY <1>2, <1>3, <1>5
  <2>2. PICK f : Fits(f, n - 1)
    BY <2>1
  <2> DEFINE g == [k \in 0..n |-> IF k = n THEN Lexes(f[n - 1], n) ELSE f[k]]
  <2>3. \A k \in 0..(n - 1) : g[k] = f[k]
    BY <1>3
  <2>4. g[n] = Lexes(f[n - 1], n)
    BY <1>3
  <2>5. ASSUME NEW k \in 0..n PROVE g[k] = IF k = 0 THEN LineStart ELSE Lexes(g[k - 1], k)
    <3>1. CASE k = n
      BY <1>3, <1>5, <2>3, <2>4, <3>1
    <3>2. CASE k # n
      <4>1. f[k] = IF k = 0 THEN LineStart ELSE Lexes(f[k - 1], k)
        BY <1>3, <2>2, <3>2 DEF Fits
      <4>2. k \in 0..(n - 1) /\ (k # 0 => k - 1 \in 0..(n - 1))
        BY <1>3, <3>2
      <4> HIDE DEF g
      <4> QED BY <2>3, <4>1, <4>2
    <3> QED BY <3>1, <3>2
  <2>6. g = [k \in 0..n |-> g[k]]
    OBVIOUS
  <2> HIDE DEF g
  <2>7. Fits(g, n)
    BY <2>5, <2>6 DEF Fits
  <2> QED BY <1>3, <2>7
<1> QED BY <1>4, <1>5

\* Lexed satisfies its recursion.
LEMMA LexedSteps ==
  ASSUME N \in Nat
  PROVE  Lexed[0] = LineStart /\ \A k \in 1..N : Lexed[k] = Lexes(Lexed[k - 1], k)
<1>1. PICK f : Fits(f, N)
  BY LexedExists
<1>2. Lexed = CHOOSE g : g = [k \in 0..N |-> IF k = 0 THEN LineStart ELSE Lexes(g[k - 1], k)]
  BY DEF Lexed
<1>3. Lexed = [k \in 0..N |-> IF k = 0 THEN LineStart ELSE Lexes(Lexed[k - 1], k)]
  BY <1>1, <1>2 DEF Fits
<1> QED BY <1>3

\* All this depends on the text alone.
LEMMA TextStays ==
  ASSUME UNCHANGED text
  PROVE  /\ N' = N /\ Lexed' = Lexed /\ Plain' = Plain
         /\ \A n : HiddenUpto(n)' = HiddenUpto(n)
         /\ \A mode, start, q, n : LexesAt(mode, start, q, n)' = LexesAt(mode, start, q, n)
<1>1. N' = N /\ \A k, S : Is(k, S)' = Is(k, S) /\ Continued(k)' = Continued(k)
                                          /\ Spliced(k)' = Spliced(k) /\ Indented(k)' = Indented(k)
  BY DEF N, Is, Continued, Spliced, Indented
<1>2. \A k, c : Follows(k, c)' = Follows(k, c)
  BY <1>1 DEF Follows
<1>3. \A s, k : Lexes(s, k)' = Lexes(s, k)
  <2>1. \A line, k : LexesToken(line, k)' = LexesToken(line, k)
    BY <1>1, <1>2 DEF LexesToken
  <2>2. \A k : Follows(k, "/")' = Follows(k, "/") /\ Spliced(k)' = Spliced(k) /\ text'[k] = text[k]
    BY <1>1, <1>2
  <2> TAKE s, k
  <2>3. /\ LexesToken(s.line, k)' = LexesToken(s.line, k) /\ Follows(k, "/")' = Follows(k, "/")
        /\ Spliced(k)' = Spliced(k) /\ text'[k] = text[k]
    BY <2>1, <2>2
  <2> QED BY <2>3 DEF Lexes
<1>4. Lexed' = Lexed
  BY <1>1, <1>3 DEF Lexed
<1>5. \A k : Hidden(k)' = Hidden(k) /\ Departs(k)' = Departs(k)
  BY <1>1, <1>3, <1>4 DEF Hidden, Departs, Comment
<1>6. Plain' = Plain
  BY <1>1, <1>4, <1>5 DEF Plain, Unclosed
<1> QED BY <1>1, <1>4, <1>5, <1>6 DEF HiddenUpto, LexesAt

-----------------------------------------------------------------------------

\* What continues a line are the `\`, the blanks behind it and the newline.
LEMMA Splices ==
  ASSUME N \in Nat, NEW k \in 1..N
  PROVE  /\ Spliced(k) => text[k] \in {"\\", "sp", "nl"}
         /\ text[k] = "nl" => (Spliced(k) <=> Continued(k))
         /\ text[k] = "\\" /\ Is(k + 1, {"nl"}) => Spliced(k) /\ Spliced(k + 1)
         /\ k + 1 <= N /\ Spliced(k + 1) /\ text[k + 1] # "\\"
              => Spliced(k) /\ text[k] \in {"\\", "sp"}
<1>1. ASSUME Spliced(k) PROVE text[k] \in {"\\", "sp", "nl"}
  <2>1. PICK b \in 1..k, e \in k..N : text[b] = "\\" /\ text[e] = "nl"
                                      /\ \A m \in (b + 1)..(e - 1) : text[m] = "sp"
    BY <1>1 DEF Spliced
  <2>2. k = b \/ k = e \/ k \in (b + 1)..(e - 1)
    OBVIOUS
  <2> QED BY <2>1, <2>2
<1>2. ASSUME text[k] = "nl", Spliced(k) PROVE Continued(k)
  <2>1. PICK b \in 1..k, e \in k..N : text[b] = "\\" /\ text[e] = "nl"
                                      /\ \A m \in (b + 1)..(e - 1) : text[m] = "sp"
    BY <1>2 DEF Spliced
  <2>2. b # k
    BY <1>2, <2>1
  <2>3. b \in 1..(k - 1) /\ \A m \in (b + 1)..(k - 1) : m \in (b + 1)..(e - 1)
    BY <2>2
  <2> QED BY <2>1, <2>3 DEF Continued
<1>3. ASSUME text[k] = "nl", Continued(k) PROVE Spliced(k)
  <2>1. PICK b \in 1..(k - 1) : text[b] = "\\" /\ \A m \in (b + 1)..(k - 1) : text[m] = "sp"
    BY <1>3 DEF Continued
  <2>2. b \in {m \in 1..k : text[m] = "\\"} /\ k \in k..N
    BY <2>1
  <2> QED BY <1>3, <2>1, <2>2 DEF Spliced
<1>4. ASSUME text[k] = "\\", Is(k + 1, {"nl"}) PROVE Spliced(k) /\ Spliced(k + 1)
  <2>1. k + 1 <= N /\ text[k + 1] = "nl" /\ \A m \in (k + 1)..((k + 1) - 1) : FALSE
    BY <1>4 DEF Is
  <2>2. /\ k \in {m \in 1..k : text[m] = "\\"} /\ k + 1 \in k..N
        /\ k \in {m \in 1..(k + 1) : text[m] = "\\"} /\ k + 1 \in (k + 1)..N
    BY <1>4, <2>1
  <2> QED BY <2>1, <2>2 DEF Spliced
<1>5. ASSUME k + 1 <= N, Spliced(k + 1), text[k + 1] # "\\"
      PROVE  Spliced(k) /\ text[k] \in {"\\", "sp"}
  <2>1. PICK b \in 1..(k + 1), e \in (k + 1)..N :
          text[b] = "\\" /\ text[e] = "nl" /\ \A m \in (b + 1)..(e - 1) : text[m] = "sp"
    BY <1>5 DEF Spliced
  <2>2. b \in 1..k /\ e \in k..N /\ (k = b \/ k \in (b + 1)..(e - 1))
    BY <1>5, <2>1
  <2>3. b \in {m \in 1..k : text[m] = "\\"}
    BY <2>1, <2>2
  <2> QED BY <2>1, <2>2, <2>3 DEF Spliced
<1> QED BY <1>1, <1>2, <1>3, <1>4, <1>5

\* C looks past the end of a continued line for the second half of a mark, _mask does not.
LEMMA MarksAgree ==
  ASSUME N \in Nat, NEW k \in 1..N, NEW c \in {"/", "*"}
  PROVE  /\ Is(k + 1, {c}) => Follows(k, c) /\ \A d \in {"/", "*"} : Follows(k, d) => d = c
         /\ Follows(k, c) => Is(k + 1, {c}) \/ (k + 1 <= N /\ Spliced(k + 1))
<1>1. ASSUME Is(k + 1, {c}) PROVE Follows(k, c)
  <2>1. k + 1 \in (k + 1)..N /\ text[k + 1] = c /\ \A b \in (k + 1)..((k + 1) - 1) : FALSE
    BY <1>1 DEF Is
  <2>2. ~Spliced(k + 1)
    BY <2>1, Splices
  <2> QED BY <2>1, <2>2 DEF Follows
<1>2. ASSUME NEW d \in {"/", "*"}, Follows(k, d) PROVE Is(k + 1, {d}) \/ (k + 1 <= N /\ Spliced(k + 1))
  <2>1. PICK m \in (k + 1)..N : text[m] = d /\ \A b \in (k + 1)..(m - 1) : Spliced(b)
    BY <1>2 DEF Follows
  <2>2. m = k + 1 \/ k + 1 \in (k + 1)..(m - 1)
    OBVIOUS
  <2> QED BY <2>1, <2>2 DEF Is
<1>3. ASSUME Is(k + 1, {c}), NEW d \in {"/", "*"}, Follows(k, d) PROVE d = c
  <2>1. k + 1 \in 1..N /\ text[k + 1] = c
    BY <1>3 DEF Is
  <2>2. ~Spliced(k + 1)
    BY <2>1, Splices
  <2> QED BY <1>2, <1>3, <2>1, <2>2 DEF Is
<1> QED BY <1>1, <1>2, <1>3

\* Indentation goes on with blanks and begins with every line.
LEMMA Indents ==
  ASSUME N \in Nat, NEW k \in 1..N
  PROVE  Indented(k + 1) <=> text[k] = "nl" \/ (text[k] = "sp" /\ Indented(k))
<1>1. k..((k + 1) - 1) = {k} /\ 1..((k + 1) - 1) = 1..k /\ 1..k = 1..(k - 1) \cup {k}
  OBVIOUS
<1>2. CASE text[k] = "nl"
  <2>1. \A b \in 1..((k + 1) - 1) : k \in b..((k + 1) - 1)
    OBVIOUS
  <2> QED BY <1>2, <2>1 DEF Indented
<1>3. CASE text[k] # "nl"
  <2>1. \A b \in 1..(k - 1) : (\E e \in b..((k + 1) - 1) : text[e] = "nl")
                                <=> (\E e \in b..(k - 1) : text[e] = "nl")
    <3> TAKE b \in 1..(k - 1)
    <3>1. \A e : e \in b..((k + 1) - 1) <=> e \in b..(k - 1) \/ e = k
      OBVIOUS
    <3> QED BY <1>3, <3>1
  <2>2. (\E e \in k..((k + 1) - 1) : text[e] = "nl") <=> FALSE
    BY <1>1, <1>3
  <2> QED BY <1>1, <1>3, <2>1, <2>2 DEF Indented
<1> QED BY <1>2, <1>3

\* The steps from one lexical state to the next, one by one.
LEMMA LexesSteps ==
  ASSUME NEW k, NEW s \in LexicalState
  PROVE  /\ Lexes(s, k) \in LexicalState
         /\ Spliced(k) => Lexes(s, k) = s
         /\ ~Spliced(k) /\ text[k] = "nl" /\ s.token # "block" => Lexes(s, k) = LineStart
         /\ s.token = "none" /\ ~Spliced(k) /\ text[k] # "nl" => Lexes(s, k) = LexesToken(s.line, k)
         /\ s.token = "line" /\ text[k] # "nl" => Lexes(s, k) = s
         /\ s.token = "open" /\ ~Spliced(k) /\ text[k] # "nl" => Lexes(s, k) = State(s.line, "block")
         /\ s.token = "block" /\ ~Spliced(k) =>
              Lexes(s, k) = IF text[k] = "*" /\ Follows(k, "/") THEN State(s.line, "close") ELSE s
         /\ s.token = "close" /\ ~Spliced(k) /\ text[k] # "nl" => Lexes(s, k) = State(s.line, "none")
         /\ s.token \in Quotes /\ ~Spliced(k) /\ text[k] # "nl" =>
              Lexes(s, k) = IF s.escaped = FALSE /\ text[k] = s.token THEN State(s.line, "none")
                            ELSE [line |-> s.line, token |-> s.token,
                                  escaped |-> s.escaped = FALSE /\ text[k] = "\\"]
<1>1. /\ s.line \in {"start", "code", "directive"}
      /\ s.token \in {"none", "line", "open", "block", "close", "'", "\""}
      /\ s.escaped \in BOOLEAN
      /\ s = [line |-> s.line, token |-> s.token, escaped |-> s.escaped]
  BY DEF LexicalState, Quotes
<1>2. LexesToken(s.line, k) \in LexicalState
  BY <1>1 DEF LexesToken, State, LexicalState, Quotes
<1>3. Spliced(k) => Lexes(s, k) = s
  BY DEF Lexes
<1>4. ~Spliced(k) /\ text[k] = "nl" /\ s.token # "block" => Lexes(s, k) = LineStart
  BY DEF Lexes
<1>5. s.token = "none" /\ ~Spliced(k) /\ text[k] # "nl" => Lexes(s, k) = LexesToken(s.line, k)
  BY DEF Lexes, Quotes
<1>6. s.token = "line" /\ text[k] # "nl" => Lexes(s, k) = s
  BY DEF Lexes, Quotes
<1>7. s.token = "open" /\ ~Spliced(k) /\ text[k] # "nl" => Lexes(s, k) = State(s.line, "block")
  BY DEF Lexes, Quotes
<1>8. s.token = "block" /\ ~Spliced(k) =>
        Lexes(s, k) = IF text[k] = "*" /\ Follows(k, "/") THEN State(s.line, "close") ELSE s
  BY DEF Lexes, Quotes
<1>9. s.token = "close" /\ ~Spliced(k) /\ text[k] # "nl" => Lexes(s, k) = State(s.line, "none")
  BY DEF Lexes, Quotes
<1>10. s.token \in Quotes /\ ~Spliced(k) /\ text[k] # "nl" =>
         Lexes(s, k) = IF s.escaped = FALSE /\ text[k] = s.token THEN State(s.line, "none")
                       ELSE [line |-> s.line, token |-> s.token,
                             escaped |-> s.escaped = FALSE /\ text[k] = "\\"]
  <2> SUFFICES ASSUME s.token \in Quotes, ~Spliced(k), text[k] # "nl"
               PROVE  Lexes(s, k) = IF s.escaped = FALSE /\ text[k] = s.token
                                    THEN State(s.line, "none")
                                    ELSE [line |-> s.line, token |-> s.token,
                                          escaped |-> s.escaped = FALSE /\ text[k] = "\\"]
    OBVIOUS
  <2>1. Lexes(s, k) = LexesLiteral(s, text[k])
    BY DEF Lexes, Quotes
  <2>2. ~s.escaped <=> s.escaped = FALSE
    BY <1>1
  <2>3. CASE s.escaped = FALSE
    BY <2>1, <2>2, <2>3 DEF LexesLiteral, State
  <2>4. CASE s.escaped # FALSE
    BY <2>1, <2>2, <2>4 DEF LexesLiteral, State
  <2> QED BY <2>3, <2>4
<1>11. /\ LineStart \in LexicalState /\ State(s.line, "none") \in LexicalState
       /\ State(s.line, "block") \in LexicalState /\ State(s.line, "close") \in LexicalState
       /\ [line |-> s.line, token |-> s.token, escaped |-> s.escaped = FALSE /\ text[k] = "\\"]
            \in LexicalState
  BY <1>1 DEF LineStart, State, LexicalState, Quotes
<1>12. Lexes(s, k) \in LexicalState
  BY <1>1, <1>2, <1>3, <1>4, <1>5, <1>6, <1>7, <1>8, <1>9, <1>10, <1>11 DEF Quotes
<1> QED BY <1>3, <1>4, <1>5, <1>6, <1>7, <1>8, <1>9, <1>10, <1>12

\* The same one by one, as the steps below need it.
LEMMA LexesStates == ASSUME NEW k, NEW s \in LexicalState PROVE Lexes(s, k) \in LexicalState
BY LexesSteps

LEMMA SplicedIsPassed == ASSUME NEW k, NEW s, Spliced(k) PROVE Lexes(s, k) = s
BY DEF Lexes

LEMMA LineEnds ==
  ASSUME NEW k, NEW s, ~Spliced(k), text[k] = "nl", s.token # "block"
  PROVE  Lexes(s, k) = LineStart
BY DEF Lexes

LEMMA CodeGoesOn ==
  ASSUME NEW k, NEW s \in LexicalState, s.token = "none", ~Spliced(k), text[k] # "nl"
  PROVE  Lexes(s, k) = LexesToken(s.line, k)
BY LexesSteps

LEMMA LineGoesOn ==
  ASSUME NEW k, NEW s \in LexicalState, s.token = "line", text[k] # "nl"
  PROVE  Lexes(s, k) = s
BY LexesSteps

LEMMA BlockBegins ==
  ASSUME NEW k, NEW s \in LexicalState, s.token = "open", ~Spliced(k), text[k] # "nl"
  PROVE  Lexes(s, k) = State(s.line, "block")
BY LexesSteps

LEMMA BlockGoesOn ==
  ASSUME NEW k, NEW s \in LexicalState, s.token = "block", ~Spliced(k)
  PROVE  Lexes(s, k) = IF text[k] = "*" /\ Follows(k, "/") THEN State(s.line, "close") ELSE s
BY LexesSteps

LEMMA BlockEnds ==
  ASSUME NEW k, NEW s \in LexicalState, s.token = "close", ~Spliced(k), text[k] # "nl"
  PROVE  Lexes(s, k) = State(s.line, "none")
BY LexesSteps

LEMMA LiteralEnds ==
  ASSUME NEW k, NEW s \in LexicalState, s.token \in Quotes, ~Spliced(k), text[k] # "nl",
         s.escaped = FALSE, text[k] = s.token
  PROVE  Lexes(s, k) = State(s.line, "none")
BY LexesSteps

\* In a literal only an escape is more to know.
LEMMA LiteralSteps ==
  ASSUME NEW k, NEW s \in LexicalState, s.token \in Quotes, ~Spliced(k), text[k] # "nl",
         ~ (s.escaped = FALSE /\ text[k] = s.token)
  PROVE  /\ Lexes(s, k).line = s.line /\ Lexes(s, k).token = s.token
         /\ IF s.escaped = FALSE /\ text[k] = "\\" THEN Lexes(s, k).escaped = TRUE
            ELSE Lexes(s, k).escaped = FALSE
<1>1. s.escaped \in BOOLEAN
  BY DEF LexicalState
<1>2. Lexes(s, k) = LexesLiteral(s, text[k])
  BY DEF Lexes, Quotes
<1>3. CASE s.escaped = FALSE
  BY <1>1, <1>2, <1>3 DEF LexesLiteral, State
<1>4. CASE s.escaped = TRUE
  BY <1>1, <1>2, <1>4 DEF LexesLiteral, State
<1> QED BY <1>1, <1>3, <1>4

\* No mark of code is a quote.
LEMMA QuotesAre ==
  ASSUME NEW q \in Quotes
  PROVE  q \notin {"none", "line", "open", "block", "close", "nl", "sp", "#", "/", "*", "\\"}
BY DEF Quotes

\* What the symbols do outside of comments and literals...
LEMMA TokenSteps ==
  ASSUME N \in Nat, NEW k \in 1..N, NEW s \in LexicalState,
         s.token = "none", s.line # "directive", ~Spliced(k), text[k] # "nl"
  PROVE  /\ text[k] = "sp" => Lexes(s, k) = State(s.line, "none")
         /\ text[k] = "#" /\ s.line = "start" => Lexes(s, k) = State("directive", "none")
         /\ text[k] = "/" /\ Is(k + 1, {"/"}) => Lexes(s, k) = State(s.line, "line")
         /\ text[k] = "/" /\ Is(k + 1, {"*"}) => Lexes(s, k) = State(s.line, "open")
         /\ text[k] \in Quotes => Lexes(s, k) = State("code", text[k])
         /\ text[k] \notin {"sp", "/"} \cup Quotes /\ ~(text[k] = "#" /\ s.line = "start")
              => Lexes(s, k) = State("code", "none")
         /\ text[k] = "/" /\ ~Follows(k, "/") /\ ~Follows(k, "*")
              => Lexes(s, k) = State("code", "none")
         /\ text[k] = "/" /\ Follows(k, "/") => Lexes(s, k) = State(s.line, "line")
         /\ text[k] = "/" /\ Follows(k, "*") /\ ~Follows(k, "/") => Lexes(s, k) = State(s.line, "open")
<1>1. Lexes(s, k) = LexesToken(s.line, k) /\ s.line \in {"start", "code"}
  <2>1. s.line \in {"start", "code", "directive"}
    BY DEF LexicalState
  <2> QED BY <2>1, CodeGoesOn
<1>2. /\ Is(k + 1, {"/"}) => Follows(k, "/")
      /\ Is(k + 1, {"*"}) => Follows(k, "*") /\ ~Follows(k, "/")
  BY MarksAgree
<1>3. \A q \in Quotes : q \notin {"sp", "#", "/"}
  BY QuotesAre
<1> QED BY <1>1, <1>2, <1>3 DEF LexesToken

\* ...and that a directive goes on to the end of its line.
LEMMA DirectiveGoesOn ==
  ASSUME NEW k, NEW s \in LexicalState, s.line = "directive", Spliced(k) \/ text[k] # "nl"
  PROVE  Lexes(s, k).line = "directive"
<1>1. s.token \in {"none", "line", "open", "block", "close"} \cup Quotes
  BY DEF LexicalState
<1>2. CASE Spliced(k)
  BY <1>2, SplicedIsPassed
<1>3. CASE ~Spliced(k) /\ s.token = "none"
  <2>1. Lexes(s, k) = LexesToken(s.line, k)
    BY <1>3, CodeGoesOn
  <2> QED BY <2>1 DEF LexesToken, State
<1>4. CASE ~Spliced(k) /\ s.token \in {"line", "open", "block", "close"}
  <2>1. Lexes(s, k) \in {s, State(s.line, "block"), State(s.line, "close"), State(s.line, "none")}
    BY <1>4, LineGoesOn, BlockBegins, BlockGoesOn, BlockEnds
  <2> QED BY <2>1 DEF State
<1>5. CASE ~Spliced(k) /\ s.token \in Quotes
  <2>1. Lexes(s, k) = State(s.line, "none") \/ Lexes(s, k).line = s.line
    BY <1>5, LiteralEnds, LiteralSteps
  <2> QED BY <2>1 DEF State
<1> QED BY <1>1, <1>2, <1>3, <1>4, <1>5

\* The mask goes on to n.
LEMMA HidesOn ==
  ASSUME N \in Nat, i \in Nat, 1 <= i, i <= N, NEW n \in i..N, UNCHANGED text,
         masked = HiddenUpto(i - 1), Blanked(i..n), \A k \in i..n : Hidden(k)
  PROVE  masked' = HiddenUpto(n)
<1>1. masked' = [k \in 1..N |-> IF k \in i..n /\ masked[k] # "nl" THEN "sp" ELSE masked[k]]
  BY DEF Blanked
<1>2. \A k \in 1..N : masked'[k] = IF k <= n /\ Hidden(k) /\ text[k] # "nl" THEN "sp" ELSE text[k]
  BY <1>1 DEF HiddenUpto
<1> QED BY <1>1, <1>2 DEF HiddenUpto

LEMMA PassesOver ==
  ASSUME N \in Nat, i \in Nat, ~Hidden(i) \/ text[i] = "nl"
  PROVE  HiddenUpto(i) = HiddenUpto(i - 1)
<1>1. \A k \in 1..N : (k <= i /\ Hidden(k) /\ text[k] # "nl") <=> (k <= i - 1 /\ Hidden(k) /\ text[k] # "nl")
  BY SMT
<1> QED BY <1>1 DEF HiddenUpto

LEMMA MaskHides ==
  ASSUME ScanInv, MaskInv, Plain, Mask, phase' \in Modes
  PROVE  i' <= N + 1 /\ masked' = HiddenUpto(i' - 1) /\ LexesAt(phase', lineStart', quote', i')
<1> DEFINE s == Lexed[i - 1]
           z == Lexed[i]
<1>1. /\ N \in Nat /\ i \in Nat /\ 1 <= i /\ i <= N /\ i \in 1..N
      /\ masked = HiddenUpto(i - 1) /\ UNCHANGED text
      /\ LexesAt(phase, lineStart, quote, i)
  BY DEF ScanInv, ScanTypes, MaskInv, Modes, Mask, Masks, Stay, AtCode, MaskNewline, MaskIndent,
         MaskDirective, Directive, MaskLineComment, LineComment, MaskBlockComment, BlockComment,
         MaskLiteral, Literal, MaskOther, MaskEnds
<1>2. s \in LexicalState /\ z = Lexes(s, i) /\ z \in LexicalState
  <2>1. s \in LexicalState
    BY <1>1 DEF LexesAt
  <2>2. z = Lexes(s, i)
    BY <1>1, LexedSteps
  <2> QED BY <2>1, <2>2, LexesStates
<1>3. i + 1 <= N => /\ i + 1 \in 1..N /\ (i + 1) - 1 = i
                    /\ Lexed[i + 1] = Lexes(z, i + 1) /\ Lexed[i + 1] \in LexicalState
  <2>1. i + 1 <= N => /\ i + 1 \in 1..N /\ (i + 1) - 1 = i
    BY <1>1
  <2>2. i + 1 <= N => Lexed[i + 1] = Lexes(z, i + 1)
    BY <1>1, <2>1, LexedSteps
  <2> QED BY <1>2, <2>1, <2>2, LexesStates
<1>4. HiddenUpto(i) = HiddenUpto(i - 1) \/ (Hidden(i) /\ text[i] # "nl")
  BY <1>1, PassesOver
<1>5. Blanked({i}) /\ Hidden(i) => masked' = HiddenUpto(i)
  <2> SUFFICES ASSUME Blanked({i}), Hidden(i) PROVE masked' = HiddenUpto(i)
    OBVIOUS
  <2>1. i..i = {i} /\ i \in i..N
    BY <1>1
  <2>2. Blanked(i..i) /\ \A k \in i..i : Hidden(k)
    BY <2>1
  <2> QED BY <1>1, <2>1, <2>2, HidesOn
<1>6. Blanked({i, i + 1}) /\ Hidden(i) /\ Hidden(i + 1) /\ i + 1 <= N
        => masked' = HiddenUpto(i + 1)
  <2> SUFFICES ASSUME Blanked({i, i + 1}), Hidden(i), Hidden(i + 1), i + 1 <= N
               PROVE  masked' = HiddenUpto(i + 1)
    OBVIOUS
  <2>1. i..(i + 1) = {i, i + 1} /\ i + 1 \in i..N
    BY <1>1
  <2>2. \A k \in i..(i + 1) : Hidden(k)
    BY <2>1
  <2> QED BY <1>1, <2>1, <2>2, HidesOn
\* What is hidden,
<1>7. /\ Hidden(i) <=> \/ z.line = "directive" \/ z.token \in {"line", "open", "block", "close"}
                       \/ s.token = "close"
                       \/ s.token \in Quotes /\ (text[i] # s.token \/ s.escaped)
      /\ i + 1 <= N =>
           (Hidden(i + 1) <=>
              \/ Lexed[i + 1].line = "directive"
              \/ Lexed[i + 1].token \in {"line", "open", "block", "close"}
              \/ z.token = "close"
              \/ z.token \in Quotes /\ (text[i + 1] # z.token \/ z.escaped))
  BY <1>2, <1>3 DEF Hidden, Comment
\* and what the text does not contain.
<1>8. /\ s.token \in Quotes /\ text[i] = "nl" => Spliced(i)
      /\ i + 1 <= N /\ z.token \in Quotes /\ text[i + 1] = "nl" => Spliced(i + 1)
  <2>1. /\ s.token \in Quotes /\ text[i] = "nl" => Spliced(i)
    BY <1>1 DEF Plain, Unclosed
  <2>2. i + 1 <= N /\ z.token \in Quotes /\ text[i + 1] = "nl" => Spliced(i + 1)
    BY <1>3 DEF Plain, Unclosed
  <2> QED BY <2>1, <2>2
<1>9. /\ s.line = "directive" /\ s.token = "block" /\ text[i] = "nl" => Spliced(i)
      /\ s.line # "directive" /\ s.token \in {"line", "open", "close"} => ~Spliced(i)
      /\ s.line # "directive" /\ s.token \in Quotes /\ Spliced(i)
           => ~s.escaped /\ (text[i] = "\\" => Is(i + 1, {"nl"}))
      /\ s.line # "directive" /\ s.token = "none" /\ text[i] = "#"
           => (Indented(i) <=> s.line = "start")
  BY <1>1 DEF Plain, Departs
<1>10. i + 1 <= N =>
         /\ z.line # "directive" /\ z.token \in {"line", "open", "close"} => ~Spliced(i + 1)
         /\ z.line # "directive" /\ z.token \in Quotes /\ Spliced(i + 1) => ~z.escaped
  BY <1>3 DEF Plain, Departs
<1>11. /\ Spliced(i) => text[i] \in {"\\", "sp", "nl"}
       /\ text[i] = "nl" => (Spliced(i) <=> Continued(i))
       /\ text[i] = "\\" /\ Is(i + 1, {"nl"}) => Spliced(i) /\ Spliced(i + 1)
       /\ i + 1 <= N /\ Spliced(i + 1) /\ text[i + 1] # "\\" => Spliced(i) /\ text[i] \in {"\\", "sp"}
  BY <1>1, Splices
<1>12. i + 1 <= N /\ Spliced(i + 1) => text[i + 1] \in {"\\", "sp", "nl"}
  BY <1>1, <1>3, Splices
<1>13. /\ Indented(i + 1) <=> text[i] = "nl" \/ (text[i] = "sp" /\ Indented(i))
       /\ i + 1 <= N => (Indented(i + 2) <=> text[i + 1] = "nl" \/ (text[i + 1] = "sp" /\ Indented(i + 1)))
  <2>1. Indented(i + 1) <=> text[i] = "nl" \/ (text[i] = "sp" /\ Indented(i))
    BY <1>1, Indents
  <2>2. i + 2 = (i + 1) + 1
    BY <1>1
  <2>3. i + 1 <= N => (Indented(i + 2) <=> text[i + 1] = "nl" \/ (text[i + 1] = "sp" /\ Indented(i + 1)))
    BY <1>1, <1>3, <2>2, Indents
  <2> QED BY <2>1, <2>3
<1>14. \A q \in Quotes :
         q \notin {"none", "line", "open", "block", "close", "nl", "sp", "#", "/", "*", "\\"}
  BY QuotesAre
<1> HIDE DEF s, z
<1>15. phase = "mask" /\ text[i] # "nl" =>
         /\ s.token = "none" /\ s.line # "directive"
         /\ (lineStart = TRUE /\ Indented(i)) \/ (lineStart = FALSE /\ ~Indented(i))
  BY <1>1 DEF LexesAt, s
<1>16. CASE MaskNewline
  <2>1. /\ phase = "mask" /\ phase' = "mask" /\ text[i] = "nl" /\ lineStart' = TRUE /\ i' = i + 1
        /\ masked' = masked
    BY <1>16 DEF MaskNewline, Masks
  <2>2. s.line # "directive" /\ s.token \in {"none", "line"}
    BY <1>1, <2>1 DEF LexesAt, s
  <2>3. z.token = "none" /\ z.line # "directive"
    <3>1. CASE Spliced(i)
      <4>1. z = s
        BY <1>2, <3>1, SplicedIsPassed
      <4> QED BY <1>9, <2>2, <3>1, <4>1
    <3>2. CASE ~Spliced(i)
      <4>1. z = LineStart
        BY <1>2, <2>1, <2>2, <3>2, LineEnds
      <4> QED BY <4>1 DEF LineStart, State
    <3> QED BY <3>1, <3>2
  <2> QED BY <1>1, <1>2, <1>4, <1>13, <2>1, <2>3 DEF LexesAt, z
<1>17. CASE MaskIndent
  <2>1. /\ phase = "mask" /\ phase' = "mask" /\ text[i] = "sp" /\ lineStart = TRUE
        /\ i' = i + 1 /\ UNCHANGED <<masked, lineStart>>
    BY <1>17 DEF MaskIndent, Masks, masking
  <2>2. s.token = "none" /\ s.line # "directive" /\ Indented(i)
    BY <1>15, <2>1
  <2>3. z.token = "none" /\ z.line # "directive"
    <3>1. CASE Spliced(i)
      BY <1>2, <2>2, <3>1, SplicedIsPassed
    <3>2. CASE ~Spliced(i)
      <4>1. z = State(s.line, "none")
        BY <1>1, <1>2, <2>1, <2>2, <3>2, TokenSteps
      <4> QED BY <2>2, <4>1 DEF State
    <3> QED BY <3>1, <3>2
  <2>4. ~Hidden(i)
    BY <1>7, <1>14, <2>2, <2>3
  <2> QED BY <1>1, <1>2, <1>4, <1>13, <2>1, <2>2, <2>3, <2>4 DEF LexesAt, z
<1>18. CASE MaskDirective
  <2>1. /\ phase = "mask" /\ phase' = "directive" /\ text[i] = "#" /\ lineStart = TRUE
        /\ UNCHANGED <<i, masked>>
    BY <1>18 DEF MaskDirective, Masks
  <2>2. s.token = "none" /\ s.line = "start"
    BY <1>9, <1>15, <2>1
  <2> QED BY <1>1, <1>2, <2>1, <2>2 DEF LexesAt, s
<1>19. CASE Directive
  <2>1. phase = "directive" /\ i' = i + 1
    BY <1>19 DEF Directive, Masks
  <2>2. s.line = "directive" \/ (s.line = "start" /\ s.token = "none" /\ text[i] = "#")
    BY <1>1, <2>1 DEF LexesAt, s
  <2>3. CASE text[i] # "nl"
    <3>1. Blanked({i}) /\ phase' = "directive"
      BY <1>19, <2>1, <2>3 DEF Directive
    <3>2. z.line = "directive"
      <4>1. CASE s.line = "directive"
        BY <1>2, <2>3, <4>1, DirectiveGoesOn
      <4>2. CASE s.line = "start" /\ s.token = "none" /\ text[i] = "#"
        <5>1. z = State("directive", "none")
          BY <1>1, <1>2, <1>11, <4>2, TokenSteps
        <5> QED BY <5>1 DEF State
      <4> QED BY <2>2, <4>1, <4>2
    <3>3. Hidden(i)
      BY <1>7, <3>2
    <3> QED BY <1>1, <1>2, <1>5, <2>1, <3>1, <3>2, <3>3 DEF LexesAt, z
  <2>4. CASE text[i] = "nl" /\ Continued(i)
    <3>1. UNCHANGED <<masked, phase>>
      BY <1>19, <2>4 DEF Directive
    <3>2. z.line = "directive"
      BY <1>2, <1>11, <2>2, <2>4, DirectiveGoesOn
    <3> QED BY <1>1, <1>2, <1>4, <2>1, <2>4, <3>1, <3>2 DEF LexesAt, z
  <2>5. CASE text[i] = "nl" /\ ~Continued(i)
    <3>1. masked' = masked /\ phase' = "mask" /\ lineStart' = TRUE
      BY <1>19, <2>5 DEF Directive
    <3>2. z = LineStart
      <4>1. ~Spliced(i) /\ text[i] = "nl"
        BY <1>11, <2>5
      <4>2. s.token # "block"
        BY <1>9, <2>2, <4>1
      <4> QED BY <1>2, <4>1, <4>2, LineEnds
    <3>3. z.token = "none" /\ z.line # "directive"
      BY <3>2 DEF LineStart, State
    <3> QED BY <1>1, <1>2, <1>4, <1>13, <2>1, <2>5, <3>1, <3>3 DEF LexesAt, z
  <2> QED BY <2>3, <2>4, <2>5
<1>20. CASE MaskLineComment
  <2>1. /\ phase = "mask" /\ phase' = "line" /\ text[i] = "/" /\ Is(i + 1, {"/"})
        /\ lineStart' = FALSE /\ UNCHANGED <<i, masked>>
    BY <1>20 DEF MaskLineComment, AtCode, Masks, OpensLine
  <2>2. s.token = "none" /\ s.line # "directive"
    BY <1>15, <2>1
  <2> QED BY <1>1, <1>2, <2>1, <2>2 DEF LexesAt, s
<1>21. CASE LineComment
  <2>1. phase = "line" /\ lineStart' = lineStart /\ lineStart = FALSE /\ s.line # "directive"
        /\ (s.token = "line" \/ (s.token = "none" /\ text[i] = "/" /\ Is(i + 1, {"/"})))
    BY <1>1, <1>21 DEF LineComment, Masks, LexesAt, s, masking
  <2>2. CASE text[i] = "nl"
    <3>1. phase' = "mask" /\ UNCHANGED <<i, masked>>
      BY <1>21, <2>2 DEF LineComment
    <3> QED BY <1>1, <1>2, <2>1, <2>2, <3>1 DEF LexesAt, s
  <2>3. CASE text[i] # "nl"
    <3>1. Blanked({i}) /\ i' = i + 1 /\ phase' = "line"
      BY <1>21, <2>1, <2>3 DEF LineComment
    <3>2. z.token = "line" /\ z.line # "directive"
      <4>1. CASE s.token = "line"
        BY <1>2, <2>1, <2>3, <4>1, LineGoesOn
      <4>2. CASE s.token = "none" /\ text[i] = "/" /\ Is(i + 1, {"/"})
        <5>1. z = State(s.line, "line")
          BY <1>1, <1>2, <1>11, <2>1, <4>2, TokenSteps
        <5> QED BY <2>1, <5>1 DEF State
      <4> QED BY <2>1, <4>1, <4>2
    <3>3. Hidden(i)
      BY <1>7, <3>2
    <3> QED BY <1>1, <1>2, <1>5, <2>1, <3>1, <3>2, <3>3 DEF LexesAt, z
  <2> QED BY <2>2, <2>3
<1>22. CASE MaskBlockComment
  <2>1. /\ phase = "mask" /\ phase' = "block" /\ text[i] = "/" /\ Is(i + 1, {"*"})
        /\ lineStart' = FALSE /\ i' = i + 2 /\ Blanked({i, i + 1})
    BY <1>22 DEF MaskBlockComment, AtCode, Masks, OpensBlock
  <2>2. s.token = "none" /\ s.line # "directive"
    BY <1>15, <2>1
  <2>3. i + 1 <= N /\ text[i + 1] = "*"
    BY <2>1 DEF Is
  <2>4. z = State(s.line, "open")
    BY <1>1, <1>2, <1>11, <2>1, <2>2, TokenSteps
  <2>5. z.token = "open" /\ z.line = s.line
    BY <2>4 DEF State
  <2>6. Lexed[i + 1] = State(z.line, "block")
    <3>1. ~Spliced(i + 1) /\ text[i + 1] # "nl"
      BY <1>12, <2>3
    <3> QED BY <1>2, <1>3, <2>3, <2>5, <3>1, BlockBegins
  <2>7. Lexed[i + 1].token = "block" /\ Lexed[i + 1].line # "directive" /\ i' - 1 = i + 1
    BY <1>1, <2>1, <2>2, <2>5, <2>6 DEF State
  <2>8. Hidden(i) /\ Hidden(i + 1)
    BY <1>7, <2>3, <2>5, <2>7
  <2> QED BY <1>1, <1>3, <1>6, <2>1, <2>3, <2>7, <2>8 DEF LexesAt
<1>23. CASE BlockComment
  <2>1. /\ phase = "block" /\ lineStart' = lineStart /\ lineStart = FALSE
        /\ s.token = "block" /\ s.line # "directive"
    BY <1>1, <1>23 DEF BlockComment, Masks, LexesAt, s, masking
  <2>2. /\ Is(i + 1, {"/"}) => Follows(i, "/")
        /\ Follows(i, "/") => Is(i + 1, {"/"}) \/ (i + 1 <= N /\ Spliced(i + 1))
    BY <1>1, MarksAgree
  <2>3. CASE text[i] = "*" /\ Is(i + 1, {"/"})
    <3>1. Blanked({i, i + 1}) /\ i' = i + 2 /\ phase' = "mask"
      BY <1>23, <2>3 DEF BlockComment
    <3>2. i + 1 <= N /\ text[i + 1] = "/"
      BY <2>3 DEF Is
    <3>3. z = State(s.line, "close")
      <4>1. ~Spliced(i) /\ Follows(i, "/")
        BY <1>11, <2>2, <2>3
      <4>2. z = IF text[i] = "*" /\ Follows(i, "/") THEN State(s.line, "close") ELSE s
        BY <1>2, <2>1, <4>1, BlockGoesOn
      <4> QED BY <2>3, <4>1, <4>2
    <3>4. z.token = "close" /\ z.line = s.line
      BY <3>3 DEF State
    <3>5. Lexed[i + 1] = State(z.line, "none")
      <4>1. ~Spliced(i + 1) /\ text[i + 1] # "nl"
        BY <1>12, <3>2
      <4> QED BY <1>2, <1>3, <3>2, <3>4, <4>1, BlockEnds
    <3>6. Lexed[i + 1].token = "none" /\ Lexed[i + 1].line # "directive" /\ i' - 1 = i + 1
      BY <1>1, <2>1, <3>1, <3>4, <3>5 DEF State
    <3>7. Hidden(i) /\ Hidden(i + 1)
      BY <1>7, <3>2, <3>4
    <3>8. ~Indented(i + 2)
      BY <1>13, <3>2
    <3> QED BY <1>1, <1>3, <1>6, <2>1, <3>1, <3>2, <3>6, <3>7, <3>8 DEF LexesAt
  <2>4. CASE ~ (text[i] = "*" /\ Is(i + 1, {"/"}))
    <3>1. Blanked({i}) /\ i' = i + 1 /\ phase' = "block"
      BY <1>23, <2>1, <2>4 DEF BlockComment
    <3>2. CASE Spliced(i)
      <4>1. z = s
        BY <1>2, <3>2, SplicedIsPassed
      <4>2. Hidden(i)
        BY <1>7, <2>1, <4>1
      <4> QED BY <1>1, <1>2, <1>5, <2>1, <3>1, <4>1, <4>2 DEF LexesAt, z
    <3>3. CASE ~Spliced(i)
      <4>1. ~ (text[i] = "*" /\ Follows(i, "/"))
        <5> SUFFICES ASSUME text[i] = "*", Follows(i, "/") PROVE FALSE
          OBVIOUS
        <5>1. i + 1 <= N /\ Spliced(i + 1)
          BY <2>2, <2>4
        <5>2. z = State(s.line, "close")
          BY <1>2, <2>1, <3>3, BlockGoesOn
        <5>3. z.token = "close" /\ z.line # "directive"
          BY <2>1, <5>2 DEF State
        <5> QED BY <1>10, <5>1, <5>3
      <4>2. z = s
        BY <1>2, <2>1, <3>3, <4>1, BlockGoesOn
      <4>3. Hidden(i)
        BY <1>7, <2>1, <4>2
      <4> QED BY <1>1, <1>2, <1>5, <2>1, <3>1, <4>2, <4>3 DEF LexesAt, z
    <3> QED BY <3>2, <3>3
  <2> QED BY <2>3, <2>4
<1>24. CASE MaskLiteral
  <2>1. /\ phase = "mask" /\ phase' = "literal" /\ text[i] \in Quotes /\ quote' = text[i]
        /\ lineStart' = FALSE /\ i' = i + 1 /\ masked' = masked
    BY <1>24 DEF MaskLiteral, AtCode, Masks
  <2>2. s.token = "none" /\ s.line # "directive" /\ text[i] \notin {"nl", "sp", "\\"}
    BY <1>14, <1>15, <2>1
  <2>3. z = State("code", text[i])
    BY <1>1, <1>2, <1>11, <2>1, <2>2, TokenSteps
  <2>4. z.line = "code" /\ z.token = text[i] /\ z.escaped = FALSE
    BY <2>3 DEF State
  <2>5. ~Hidden(i)
    BY <1>7, <1>14, <2>1, <2>2, <2>4
  <2>6. i + 1 <= N /\ Spliced(i + 1) => text[i + 1] = "\\"
    BY <1>11, <2>2
  <2> QED BY <1>1, <1>2, <1>4, <2>1, <2>4, <2>5, <2>6 DEF LexesAt, z
<1>25. CASE Literal
  <2>1. /\ phase = "literal" /\ UNCHANGED <<lineStart, quote>> /\ lineStart = FALSE
        /\ quote \in Quotes /\ s.token = quote /\ s.escaped = FALSE /\ s.line # "directive"
        /\ Spliced(i) => text[i] = "\\"
    BY <1>1, <1>25 DEF Literal, Masks, LexesAt, s, masking
  <2>2. text[i] # "nl"
    BY <1>8, <2>1
  <2>3. CASE text[i] = quote
    <3>1. phase' = "mask" /\ i' = i + 1 /\ masked' = masked
      BY <1>25, <2>3 DEF Literal
    <3>2. text[i] \notin {"\\", "nl", "sp"} /\ ~Spliced(i)
      BY <1>14, <2>1, <2>3
    <3>3. z = State(s.line, "none")
      BY <1>2, <2>1, <2>2, <2>3, <3>2, LiteralEnds
    <3>4. z.token = "none" /\ z.line # "directive"
      BY <2>1, <3>3 DEF State
    <3>5. ~Hidden(i)
      BY <1>7, <1>14, <2>1, <2>3, <3>4
    <3>6. ~Indented(i + 1)
      BY <1>13, <3>2
    <3> QED BY <1>1, <1>2, <1>4, <2>1, <3>1, <3>4, <3>5, <3>6 DEF LexesAt, z
  <2>4. CASE text[i] # quote
    <3>1. Hidden(i)
      BY <1>7, <2>1, <2>4
    <3>2. ~Spliced(i) => /\ z.line = s.line /\ z.token = s.token
                         /\ IF text[i] = "\\" THEN z.escaped = TRUE ELSE z.escaped = FALSE
      BY <1>2, <2>1, <2>2, <2>4, LiteralSteps
    <3>3. CASE text[i] = "\\" /\ i < N
      <4>1. Blanked({i, i + 1}) /\ i' = i + 2 /\ phase' = "literal" /\ i + 1 <= N
        BY <1>1, <1>25, <2>1, <2>2, <2>4, <3>3 DEF Literal
      <4>2. /\ Hidden(i + 1) /\ Lexed[i + 1].line # "directive" /\ Lexed[i + 1].token = quote
            /\ Lexed[i + 1].escaped = FALSE
            /\ ~Spliced(i + 1) \/ text[i + 1] = "nl"
        <5>1. CASE Spliced(i)
          <6>1. Spliced(i + 1) /\ text[i + 1] = "nl"
            BY <1>9, <1>11, <2>1, <3>3, <5>1 DEF Is
          <6>2. z = s /\ Lexed[i + 1] = z
            <7>1. z = s
              BY <1>2, <5>1, SplicedIsPassed
            <7>2. Lexed[i + 1] = z
              BY <1>3, <4>1, <6>1, SplicedIsPassed
            <7> QED BY <7>1, <7>2
          <6>3. Hidden(i + 1)
            BY <1>7, <1>14, <2>1, <4>1, <6>1, <6>2
          <6> QED BY <2>1, <6>1, <6>2, <6>3
        <5>2. CASE ~Spliced(i)
          <6>1. z.line = s.line /\ z.token = quote /\ z.escaped = TRUE /\ z.escaped # FALSE
            BY <2>1, <3>2, <3>3, <5>2
          <6>2. ~Spliced(i + 1) /\ text[i + 1] # "nl"
            BY <1>8, <1>10, <2>1, <4>1, <6>1
          <6>3. Lexed[i + 1].line = z.line /\ Lexed[i + 1].token = z.token
                /\ Lexed[i + 1].escaped = FALSE
            <7>1. z \in LexicalState /\ z.token \in Quotes
              BY <1>2, <2>1, <6>1
            <7>2. Lexes(z, i + 1).line = z.line /\ Lexes(z, i + 1).token = z.token
                  /\ Lexes(z, i + 1).escaped = FALSE
              BY <6>1, <6>2, <7>1, LiteralSteps
            <7> QED BY <1>3, <4>1, <7>2
          <6>4. Hidden(i + 1)
            BY <1>7, <2>1, <4>1, <6>1
          <6> QED BY <2>1, <6>1, <6>2, <6>3, <6>4
        <5> QED BY <5>1, <5>2
      <4>3. i + 2 <= N /\ Spliced(i + 2) => text[i + 2] = "\\"
        <5> SUFFICES ASSUME i + 2 <= N, Spliced(i + 2), text[i + 2] # "\\" PROVE FALSE
          OBVIOUS
        <5>1. i + 1 \in 1..N /\ (i + 1) + 1 = i + 2
          BY <1>1, <4>1
        <5>2. Spliced(i + 1) /\ text[i + 1] \in {"\\", "sp"}
          BY <1>1, <5>1, Splices
        <5> QED BY <4>2, <5>2
      <4>4. i' - 1 = i + 1
        BY <1>1, <4>1
      <4> QED BY <1>1, <1>3, <1>6, <2>1, <3>1, <4>1, <4>2, <4>3, <4>4 DEF LexesAt
    <3>4. CASE ~ (text[i] = "\\" /\ i < N)
      <4>1. Blanked({i}) /\ i' = i + 1 /\ phase' = "literal"
        BY <1>25, <2>1, <2>2, <2>4, <3>4 DEF Literal
      <4>2. i < N => z.line # "directive" /\ z.token = quote /\ z.escaped = FALSE /\ ~Spliced(i)
        BY <2>1, <3>2, <3>4
      <4>3. i < N /\ Spliced(i + 1) => text[i + 1] = "\\"
        BY <1>1, <1>11, <4>2
      <4>4. i' <= N => i < N
        BY <1>1, <4>1
      <4> QED BY <1>1, <1>2, <1>5, <2>1, <3>1, <4>1, <4>2, <4>3, <4>4 DEF LexesAt, z
    <3> QED BY <3>3, <3>4
  <2> QED BY <2>3, <2>4
<1>26. CASE MaskOther
  <2>1. /\ phase = "mask" /\ phase' = "mask" /\ text[i] # "nl" /\ text[i] \notin Quotes
        /\ ~ (lineStart /\ text[i] \in {"sp", "#"})
        /\ ~ (text[i] = "/" /\ Is(i + 1, {"/"})) /\ ~ (text[i] = "/" /\ Is(i + 1, {"*"}))
        /\ lineStart' = FALSE /\ i' = i + 1 /\ masked' = masked
    BY <1>26 DEF MaskOther, AtCode, Masks, OpensLine, OpensBlock
  <2>2. s.token = "none" /\ s.line # "directive"
    BY <1>15, <2>1
  <2>3. text[i] \in {"sp", "#"} => ~Indented(i)
    BY <1>15, <2>1
  <2>4. z.token = "none" /\ z.line # "directive"
    <3>1. CASE Spliced(i)
      BY <1>2, <2>2, <3>1, SplicedIsPassed
    <3>2. CASE ~Spliced(i) /\ text[i] = "sp"
      <4>1. z = State(s.line, "none")
        BY <1>1, <1>2, <2>2, <3>2, TokenSteps
      <4> QED BY <2>2, <4>1 DEF State
    <3>3. CASE ~Spliced(i) /\ text[i] = "/"
      <4>1. /\ Follows(i, "/") => i + 1 <= N /\ Spliced(i + 1)
            /\ Follows(i, "*") => i + 1 <= N /\ Spliced(i + 1)
        BY <1>1, <2>1, <3>3, MarksAgree
      <4>2. CASE Follows(i, "/")
        <5>1. z = State(s.line, "line")
          BY <1>1, <1>2, <2>2, <3>3, <4>2, TokenSteps
        <5>2. z.token = "line" /\ z.line # "directive"
          BY <2>2, <5>1 DEF State
        <5> QED BY <1>10, <4>1, <4>2, <5>2
      <4>3. CASE ~Follows(i, "/") /\ Follows(i, "*")
        <5>1. z = State(s.line, "open")
          BY <1>1, <1>2, <2>2, <3>3, <4>3, TokenSteps
        <5>2. z.token = "open" /\ z.line # "directive"
          BY <2>2, <5>1 DEF State
        <5> QED BY <1>10, <4>1, <4>3, <5>2
      <4>4. CASE ~Follows(i, "/") /\ ~Follows(i, "*")
        <5>1. z = State("code", "none")
          BY <1>1, <1>2, <2>2, <3>3, <4>4, TokenSteps
        <5> QED BY <5>1 DEF State
      <4> QED BY <4>2, <4>3, <4>4
    <3>4. CASE ~Spliced(i) /\ text[i] \notin {"sp", "/"}
      <4>1. ~ (text[i] = "#" /\ s.line = "start")
        BY <1>9, <2>2, <2>3
      <4>2. z = State("code", "none")
        BY <1>1, <1>2, <2>1, <2>2, <3>4, <4>1, TokenSteps
      <4> QED BY <4>2 DEF State
    <3> QED BY <3>1, <3>2, <3>3, <3>4
  <2>5. ~Hidden(i)
    BY <1>7, <1>14, <2>2, <2>4
  <2>6. ~Indented(i + 1)
    BY <1>13, <2>1, <2>3
  <2> QED BY <1>1, <1>2, <1>4, <2>1, <2>4, <2>5, <2>6 DEF LexesAt, z
<1>27. ~MaskEnds
  BY <1>1 DEF MaskEnds
<1> QED BY <1>16, <1>17, <1>18, <1>19, <1>20, <1>21, <1>22, <1>23, <1>24, <1>25, <1>26, <1>27
        DEF Mask

LEMMA TextNeverChanges == ASSUME [Next]_vars PROVE UNCHANGED text
BY DEF Next, Mask, Stay, MaskNewline, MaskIndent, MaskDirective, Directive, MaskLineComment,
       LineComment, MaskBlockComment, BlockComment, MaskLiteral, Literal, MaskOther, MaskEnds,
       Scan, Keep, EndStatement, OpenBlock, Identifier, Raise, Other, TryBlank, Accept,
       RejectHere, TryPast, TryWord, RejectOther, RejectAtEnd, ScanEnds, vars

LEMMA MaskInvStep ==
  ASSUME ScanInv, MaskInv, Plain, [Next]_vars
  PROVE  MaskInv'
<1>1. UNCHANGED text
  BY TextNeverChanges
<1>2. N' = N /\ \A n : HiddenUpto(n)' = HiddenUpto(n)
  BY <1>1, TextStays
<1>3. \A mode, start, q, n : LexesAt(mode, start, q, n)' = LexesAt(mode, start, q, n)
  BY <1>1, TextStays
<1>4. CASE Mask /\ phase' \in Modes
  <2>1. i' <= N + 1 /\ masked' = HiddenUpto(i' - 1) /\ LexesAt(phase', lineStart', quote', i')
    BY <1>4, MaskHides
  <2> QED BY <1>1, <1>2, <1>3, <1>4, <2>1, TextStays DEF MaskInv
<1>5. CASE MaskEnds
  <2>1. phase \in Modes /\ i > N /\ phase' = "scan" /\ masked' = masked
    BY <1>5 DEF MaskEnds, Modes
  <2>2. i - 1 = N /\ masked = HiddenUpto(i - 1)
    BY <2>1 DEF MaskInv, ScanInv, ScanTypes
  <2>3. phase' \notin Modes
    BY <2>1 DEF Modes
  <2> QED BY <1>2, <2>1, <2>2, <2>3 DEF MaskInv
<1>6. CASE Scan
  <2>1. phase \notin Modes /\ phase' \notin Modes /\ masked' = masked
    BY <1>6 DEF Scan, Modes, Keep, EndStatement, OpenBlock, Identifier, Raise, Other, TryBlank,
                Accept, RejectHere, TryPast, TryWord, RejectOther, RejectAtEnd, ScanEnds, Scans,
                Tries, Reject
  <2> QED BY <1>2, <2>1 DEF MaskInv
<1>7. CASE UNCHANGED vars
  <2>1. UNCHANGED <<phase, i, masked, lineStart, quote>>
    BY <1>7 DEF vars, masking
  <2> QED BY <1>1, <1>2, <1>3, <2>1, TextStays DEF MaskInv
<1>8. Mask => phase' \in Modes \/ MaskEnds
  BY DEF Mask, Modes, MaskNewline, MaskIndent, MaskDirective, Directive, MaskLineComment,
         LineComment, MaskBlockComment, BlockComment, MaskLiteral, Literal, MaskOther, Masks, AtCode
<1> QED BY <1>4, <1>5, <1>6, <1>7, <1>8 DEF Next

\* In every C text, but for the places of Departs, the index arithmetic of _mask hides exactly
\* what C calls a comment, a directive or the inside of a literal.
THEOREM MaskAgreesWithC == Spec => []MaskAgrees
<1>1. Init => ScanInv /\ (~Plain \/ MaskInv)
  <2> SUFFICES ASSUME Init PROVE MaskInv
    BY ScanStarts
  <2>1. N \in Nat /\ phase = "mask" /\ i = 1 /\ lineStart = TRUE /\ masked = text
        /\ text = [k \in 1..N |-> text[k]]
    BY TextsAssumption DEF Init, N
  <2>2. HiddenUpto(0) = [k \in 1..N |-> text[k]]
    BY <2>1 DEF HiddenUpto
  <2>3. Lexed[1 - 1] = LineStart
    BY <2>1, LexedSteps
  <2>4. LineStart \in LexicalState /\ LineStart.token = "none" /\ LineStart.line # "directive"
    BY DEF LineStart, State, LexicalState
  <2>5. Indented(1)
    BY DEF Indented
  <2>6. LexesAt(phase, lineStart, quote, i)
    BY <2>1, <2>3, <2>4, <2>5 DEF LexesAt
  <2>7. i - 1 = 0 /\ i <= N + 1 /\ masked = [k \in 1..N |-> text[k]]
    BY <2>1
  <2>8. masked = HiddenUpto(i - 1)
    BY <2>2, <2>7
  <2> QED BY <2>1, <2>6, <2>7, <2>8 DEF MaskInv, Modes
<1>2. ScanInv /\ (~Plain \/ MaskInv) /\ [Next]_vars => (ScanInv /\ (~Plain \/ MaskInv))'
  <2> SUFFICES ASSUME ScanInv, ~Plain \/ MaskInv, [Next]_vars
               PROVE  ScanInv' /\ (~Plain \/ MaskInv)'
    OBVIOUS
  <2>1. ScanInv'
    BY ScanStep
  <2>2. Plain' = Plain
    BY TextNeverChanges, TextStays
  <2> QED BY <2>1, <2>2, MaskInvStep
<1>3. MaskInv \/ ~Plain => MaskAgrees
  BY DEF MaskInv, Modes, MaskAgrees, HiddenUpto, Plain
<1> QED BY <1>1, <1>2, <1>3, PTL DEF Spec

-----------------------------------------------------------------------------
(***************************************************************************)
(* That the loops come to an end: what ScanTerminates rests on.            *)
(***************************************************************************)

\* The masking is followed by the scan, and this by the end.
Stage == CASE phase \in Modes -> 2
           [] phase \in {"scan", "candidate"} -> 1
           [] OTHER -> 0

\* What is left of the text.  A candidate may be given up and read again, but not its parameters.
Ahead == N + 1 - (IF phase = "candidate" THEN cand.close ELSE i)

\* The turns left at one position: of a candidate up to the end of the text; of the mask where
\* it enters a comment or directive, or leaves a comment at its newline.
Turns == CASE phase = "candidate" -> N + 2 - i
           [] phase = "mask" /\ i <= N /\ ~Is(i, {"nl"}) -> 2
           [] phase \in {"directive", "line"} -> 1
           [] OTHER -> 0

\* The loops have a variant: numbers that no step increases in this order.
Shrinks == \/ Stage' < Stage
           \/ Stage' = Stage /\ Ahead' < Ahead
           \/ Stage' = Stage /\ Ahead' = Ahead /\ Turns' < Turns

\* The position stays inside the text or right behind it.
Within == i <= N + 1

-----------------------------------------------------------------------------

\* The further on, the less is left.
LEMMA LessIsLeft ==
  \A n, a, b \in Nat : a < b => n + 1 - b < n + 1 - a
OBVIOUS

LEMMA MeasuresCount ==
  ASSUME ScanInv, Within
  PROVE  Stage \in Nat /\ Ahead \in Nat /\ Turns \in Nat
<1>1. Stage \in Nat /\ Turns \in Nat
  BY DEF ScanInv, ScanTypes, Within, Stage, Turns
<1>2. Ahead \in Nat
  BY DEF ScanInv, ScanTypes, ScanIsPast, Within, Ahead
<1> QED BY <1>1, <1>2

LEMMA MaskShrinks == ASSUME ScanInv, Within, Mask PROVE Within' /\ Shrinks
<1>1. /\ N \in Nat /\ i \in Nat /\ 1 <= i /\ phase \in Modes /\ N' = N /\ UNCHANGED text
      /\ phase \notin {"scan", "candidate"}
  BY DEF ScanInv, ScanTypes, Modes, Mask, Masks, Stay, AtCode, MaskNewline, MaskIndent,
         MaskDirective, Directive, MaskLineComment, LineComment, MaskBlockComment, BlockComment,
         MaskLiteral, Literal, MaskOther, MaskEnds, N
<1>2. \A k, S : Is(k, S)' = Is(k, S)
  BY <1>1 DEF Is
<1>3. CASE MaskEnds
  <2>1. phase' = "scan" /\ i' = 1
    BY <1>3 DEF MaskEnds
  <2> QED BY <1>1, <2>1 DEF Within, Shrinks, Stage, Modes
<1>4. ASSUME i < i', i' \in Nat, i' <= N + 1, phase' \in Modes PROVE Within' /\ Shrinks
  <2>1. Stage' = Stage /\ phase # "candidate" /\ phase' # "candidate"
    BY <1>1, <1>4 DEF Stage, Modes
  <2>2. Ahead = N + 1 - i /\ Ahead' = N + 1 - i'
    BY <1>1, <2>1 DEF Ahead
  <2>3. Ahead' < Ahead
    BY <1>1, <1>4, <2>2, LessIsLeft
  <2> QED BY <1>1, <1>4, <2>1, <2>3 DEF Within, Shrinks
<1>5. ASSUME i' = i, phase' \in Modes, Turns' < Turns PROVE Within' /\ Shrinks
  <2>1. Stage' = Stage /\ phase # "candidate" /\ phase' # "candidate"
    BY <1>1, <1>5 DEF Stage, Modes
  <2>2. Ahead' = Ahead
    BY <1>1, <1>5, <2>1 DEF Ahead
  <2> QED BY <1>1, <1>5, <2>1, <2>2 DEF Within, Shrinks
<1>6. CASE MaskNewline \/ MaskIndent \/ MaskLiteral \/ MaskOther
  <2>1. i <= N /\ i' = i + 1 /\ phase' \in Modes
    BY <1>1, <1>6 DEF MaskNewline, MaskIndent, MaskLiteral, MaskOther, AtCode, Masks, Modes
  <2> QED BY <1>1, <1>4, <2>1
<1>7. CASE MaskDirective \/ MaskLineComment
  <2>1. /\ i <= N /\ i' = i /\ phase = "mask" /\ phase' \in {"directive", "line"}
        /\ text[i] # "nl"
    BY <1>7 DEF MaskDirective, MaskLineComment, AtCode, OpensLine, Masks
  <2>2. ~ Is(i, {"nl"})
    BY <2>1 DEF Is
  <2>3. Turns = 2 /\ Turns' = 1 /\ phase' \in Modes
    BY <2>1, <2>2 DEF Turns, Modes
  <2> QED BY <1>5, <2>1, <2>3
<1>8. CASE Directive
  <2>1. i <= N /\ i' = i + 1 /\ phase' \in Modes
    BY <1>1, <1>8 DEF Directive, Masks, Modes
  <2> QED BY <1>1, <1>4, <2>1
<1>9. CASE LineComment
  <2>1. i <= N /\ phase = "line"
    BY <1>9 DEF LineComment, Masks
  <2>2. CASE text[i] = "nl"
    <3>1. i' = i /\ phase' = "mask" /\ Is(i, {"nl"})
      BY <1>9, <2>1, <2>2 DEF LineComment, Is
    <3>2. Is(i, {"nl"})'
      BY <1>1, <3>1 DEF Is
    <3>3. Turns = 1 /\ Turns' = 0 /\ phase' \in Modes
      BY <2>1, <3>1, <3>2 DEF Turns, Modes
    <3> QED BY <1>5, <3>1, <3>3
  <2>3. CASE text[i] # "nl"
    <3>1. i' = i + 1 /\ phase' \in Modes
      BY <1>1, <1>9, <2>3 DEF LineComment
    <3> QED BY <1>1, <1>4, <2>1, <3>1
  <2> QED BY <2>2, <2>3
<1>10. CASE MaskBlockComment \/ BlockComment
  <2>1. /\ i <= N /\ phase' \in Modes
        /\ i' = i + 1 \/ (i' = i + 2 /\ (Is(i + 1, {"*"}) \/ Is(i + 1, {"/"})))
    BY <1>1, <1>10 DEF MaskBlockComment, BlockComment, AtCode, OpensBlock, Masks, Modes
  <2>2. Is(i + 1, {"*"}) \/ Is(i + 1, {"/"}) => i + 1 <= N
    BY DEF Is
  <2> QED BY <1>1, <1>4, <2>1, <2>2
<1>11. CASE Literal
  <2>1. i <= N /\ phase' \in Modes /\ (i' = i + 1 \/ (i' = i + 2 /\ i < N))
    BY <1>1, <1>11 DEF Literal, Masks, Modes
  <2> QED BY <1>1, <1>4, <2>1
<1> QED BY <1>3, <1>6, <1>7, <1>8, <1>9, <1>10, <1>11 DEF Mask

LEMMA ScanShrinks == ASSUME ScanInv, Within, Scan PROVE Within' /\ Shrinks
<1>1. /\ N \in Nat /\ i \in Nat /\ 1 <= i /\ i <= N + 1 /\ N' = N /\ phase \notin Modes
      /\ phase \in {"scan", "candidate"}
  BY DEF ScanInv, ScanTypes, Within, Modes, Scan, Keep, EndStatement, OpenBlock, Identifier, Raise,
         Other, TryBlank, Accept, RejectHere, TryPast, TryWord, RejectOther, RejectAtEnd, ScanEnds,
         Scans, Tries, N
<1>2. phase = "candidate" => /\ cand.at \in Nat /\ cand.close \in Nat
                             /\ cand.at < cand.close /\ cand.close <= i /\ cand.close <= N + 1
  BY DEF ScanInv, ScanTypes, ScanIsPast
\* Forward in the scan; on with a candidate; a candidate given up; a candidate found; the end.
<1>3. ASSUME phase = "scan", phase' = "scan", i' \in Nat, i < i', i' <= N + 1
      PROVE  Within' /\ Shrinks
  BY <1>1, <1>3 DEF Within, Shrinks, Stage, Modes, Ahead
<1>4. ASSUME phase = "candidate", phase' = "candidate", cand'.close = cand.close,
             i' \in Nat, i < i', i' <= N + 1
      PROVE  Within' /\ Shrinks
  <2>1. Stage' = Stage /\ Ahead' = Ahead
    BY <1>1, <1>4 DEF Stage, Modes, Ahead
  <2>2. Turns' < Turns
    BY <1>1, <1>4 DEF Turns
  <2> QED BY <1>1, <1>4, <2>1, <2>2 DEF Within, Shrinks
<1>5. ASSUME phase = "candidate", phase' = "scan", i' \in Nat, cand.close <= i', i' <= N + 1
      PROVE  Within' /\ Shrinks
  <2>1. Stage' = Stage /\ Ahead' <= Ahead /\ Ahead' \in Int /\ Ahead \in Int
    BY <1>1, <1>2, <1>5 DEF Stage, Modes, Ahead
  <2>2. Turns' < Turns
    BY <1>1, <1>5 DEF Turns
  <2> QED BY <1>1, <1>5, <2>1, <2>2 DEF Within, Shrinks
<1>6. CASE EndStatement \/ Other
  <2>1. phase = "scan" /\ phase' = "scan" /\ i <= N /\ i' = i + 1
    BY <1>6 DEF EndStatement, Other, Scans
  <2> QED BY <1>1, <1>3, <2>1
<1>7. CASE OpenBlock
  <2>1. /\ i <= N /\ phase = "scan" /\ phase' = "scan"
        /\ i' = i + 1 \/ i' \in Braces(i)
    BY <1>7 DEF OpenBlock, Scans
  <2>2. i' \in Nat /\ i < i' /\ i' <= N + 1
    BY <1>1, <2>1, Skips
  <2> QED BY <1>3, <2>1, <2>2
<1>8. CASE Identifier
  <2>1. phase = "scan" /\ i <= N
    BY <1>8 DEF Identifier, Scans
  <2>2. PICK after \in Unblanked(i + 1) :
          \/ i' = i + 1 /\ phase' = phase
          \/ /\ At(after, {"("})
             /\ \E close \in Parens(after) :
                  cand' = [at |-> i, close |-> close, ctor |-> FALSE]
                  /\ i' = close /\ phase' = "candidate"
    BY <1>8 DEF Identifier
  <2>3. after \in Nat /\ i < after
    BY <1>1, <2>2, Skips
  <2>4. CASE i' = i + 1 /\ phase' = phase
    BY <1>1, <1>3, <2>1, <2>4
  <2>5. ASSUME At(after, {"("}), NEW close \in Parens(after),
               cand' = [at |-> i, close |-> close, ctor |-> FALSE], i' = close,
               phase' = "candidate"
        PROVE  Within' /\ Shrinks
    <3>1. after <= N
      BY <2>5 DEF At
    <3>2. close \in Nat /\ i < close /\ close <= N + 1
      BY <1>1, <2>3, <2>5, <3>1, Skips
    <3>3. Stage' = Stage /\ Ahead' < Ahead
      BY <1>1, <2>1, <2>5, <3>2 DEF Stage, Modes, Ahead
    <3> QED BY <1>1, <2>5, <3>2, <3>3 DEF Within, Shrinks
  <2> QED BY <2>2, <2>4, <2>5
<1>9. CASE Raise \/ ScanEnds
  <2>1. i' = i /\ phase' \in {"error", "done"}
    BY <1>9 DEF Raise, ScanEnds
  <2> QED BY <1>1, <2>1 DEF Within, Shrinks, Stage, Modes
<1>10. CASE TryBlank
  <2>1. /\ phase = "candidate" /\ phase' = phase /\ cand' = cand /\ i <= N /\ i' = i + 1
    BY <1>10 DEF TryBlank, Tries, scanning
  <2> QED BY <1>1, <1>4, <2>1
<1>11. CASE TryPast
  <2>1. phase = "candidate" /\ phase' = phase /\ i <= N
    BY <1>11 DEF TryPast, Tries
  <2>2. cand' = cand \/ cand' = [cand EXCEPT !.ctor = TRUE]
    BY <1>11 DEF TryPast
  <2>3. cand'.close = cand.close
    BY <2>2 DEF ScanInv, ScanTypes
  <2>4. i' = i + 1 \/ (At(i + 1, {">"}) /\ i' = i + 2)
    BY <1>11 DEF TryPast
  <2> QED BY <1>1, <1>4, <2>1, <2>3, <2>4 DEF At
<1>12. CASE TryWord
  <2>1. phase = "candidate" /\ i <= N
    BY <1>12 DEF TryWord, Tries
  <2>2. PICK after \in Unblanked(i + 1) :
          \/ i' = i + 1 /\ UNCHANGED <<phase, cand>>
          \/ At(after, {"("}) /\ i' \in Parens(after) /\ UNCHANGED <<phase, cand>>
          \/ Reject(i)
    BY <1>12 DEF TryWord
  <2>3. after \in Nat /\ i < after
    BY <1>1, <2>2, Skips
  <2>4. CASE i' = i + 1 /\ UNCHANGED <<phase, cand>>
    BY <1>1, <1>4, <2>1, <2>4
  <2>5. CASE At(after, {"("}) /\ i' \in Parens(after) /\ UNCHANGED <<phase, cand>>
    <3>1. after <= N
      BY <2>5 DEF At
    <3>2. i' \in Nat /\ i < i' /\ i' <= N + 1
      BY <1>1, <2>3, <2>5, <3>1, Skips
    <3> QED BY <1>4, <2>1, <2>5, <3>2
  <2>6. CASE Reject(i)
    BY <1>1, <1>2, <1>5, <2>1, <2>6 DEF Reject
  <2> QED BY <2>2, <2>4, <2>5, <2>6
<1>13. CASE Accept
  <2>1. phase = "candidate" /\ phase' = "scan" /\ i <= N /\ i' \in Braces(i)
    BY <1>13 DEF Accept, Tries
  <2>2. i' \in Nat /\ i < i' /\ i' <= N + 1
    BY <1>1, <2>1, Skips
  <2> QED BY <1>1, <1>2, <1>5, <2>1, <2>2
<1>14. CASE RejectHere \/ RejectOther
  <2>1. phase = "candidate" /\ i <= N /\ (Reject(i) \/ Reject(i + 1))
    BY <1>14 DEF RejectHere, RejectOther, Tries
  <2> QED BY <1>1, <1>2, <1>5, <2>1 DEF Reject
<1>15. CASE RejectAtEnd
  <2>1. phase = "candidate" /\ Reject(cand.close)
    BY <1>15 DEF RejectAtEnd
  <2> QED BY <1>2, <1>5, <2>1 DEF Reject
<1> QED BY <1>6, <1>7, <1>8, <1>9, <1>10, <1>11, <1>12, <1>13, <1>14, <1>15 DEF Scan

\* The parser cannot go round for ever, whatever the text and however often it gives a
\* candidate up: every step decreases a triple of numbers in their lexicographic order.
THEOREM EveryStepShrinks ==
  Spec => [](Stage \in Nat /\ Ahead \in Nat /\ Turns \in Nat) /\ [][Shrinks]_vars
<1>1. Init => ScanInv /\ Within
  <2> SUFFICES ASSUME Init PROVE Within
    BY ScanStarts
  <2> QED BY TextsAssumption DEF Init, N, Within
<1>2. ScanInv /\ Within /\ [Next]_vars => (ScanInv /\ Within)' /\ [Shrinks]_vars
  <2> SUFFICES ASSUME ScanInv, Within, [Next]_vars
               PROVE  (ScanInv /\ Within)' /\ [Shrinks]_vars
    OBVIOUS
  <2>1. ScanInv'
    BY ScanStep
  <2>2. CASE UNCHANGED vars
    BY <2>1, <2>2 DEF vars, N, Within
  <2> QED BY <2>1, <2>2, MaskShrinks, ScanShrinks DEF Next
<1>3. ScanInv /\ Within => Stage \in Nat /\ Ahead \in Nat /\ Turns \in Nat
  BY MeasuresCount
<1> QED BY <1>1, <1>2, <1>3, PTL DEF Spec

=============================================================================
