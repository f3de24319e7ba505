------------------------- MODULE RsyncProgressProofs -------------------------
(***************************************************************************)
(* That the progress is well-formed, never goes back, lists every failed   *)
(* file once and says "Failed" of a complete failure only, for logs of any *)
(* length, however they are cut into chunks.                               *)
(*                                                                         *)
(* First what the parser finds in any text, then what Parse does to the    *)
(* progress with any text (ParseGrows), then the inductive invariant, that *)
(* relates what was parsed to the log.                                     *)
(***************************************************************************)
EXTENDS RsyncProgress, WellFoundedInduction, SequenceTheorems, FiniteSetTheorems, TLAPS

\* A set of natural numbers has a least element, and Min is that.
LEMMA MinIsIn ==
  ASSUME NEW S, S \subseteq Nat, S # {}
  PROVE  Min(S) \in S /\ \A i \in S : Min(S) <= i
<1>1. PICK m \in S : \A i \in S : <<i, m>> \notin OpToRel(<, Nat)
  BY NatLessThanWellFounded, WFMin
<1>2. \A i \in S : ~(i < m)
  BY <1>1 DEF OpToRel
<1>3. \A i \in S : m <= i
  BY <1>2
<1> QED
  BY <1>3 DEF Min

\* A bounded one has a greatest element, and Max is that.
LEMMA MaxIsIn ==
  ASSUME NEW n \in Nat, NEW S, S \subseteq 1..n, S # {}
  PROVE  Max(S) \in S /\ \A i \in S : Max(S) >= i
<1> DEFINE D == {n - i : i \in S}
<1>0. \A i \in S : n - i \in Nat
  OBVIOUS
<1>1. D \subseteq Nat /\ D # {}
  <2>1. D \subseteq Nat
    BY <1>0
  <2>2. PICK i \in S : TRUE
    OBVIOUS
  <2> QED
    BY <2>1, <2>2
<1> HIDE DEF D
<1>2. Min(D) \in D /\ \A d \in D : Min(D) <= d
  BY <1>1, MinIsIn
<1>3. PICK m \in S : Min(D) = n - m
  BY <1>2 DEF D
<1>4. \A i \in S : n - i \in D
  BY DEF D
<1>5. \A i \in S : m >= i
  BY <1>2, <1>3, <1>4
<1> QED
  BY <1>5 DEF Max

-----------------------------------------------------------------------------
(* Texts: sequences of lines.                                              *)

\* What a line of the log, or its beginning, may be.
Lines ==
  {Line("progress", v) : v \in [pct : 0..100, data : {a \in Amounts : a.val > 0}]}
  \cup {Line("failed", v) : v \in [name : Names, text : {"cut", "whole"}]}
  \cup {Line("stats", TotalFiles)}
  \cup {Line("count", v) : v \in Nat}
  \cup {Line("size", v) : v \in Amounts}
  \cup {Line("retry", v) : v \in Nat}

\* What the kind of a line says of its value.
LEMMA ValueOfLine ==
  ASSUME NEW l \in Lines
  PROVE  /\ l.kind = "progress" => /\ l.value \in [pct : 0..100, data : Amounts]
                                   /\ l.value.data.val > 0
         /\ l.kind = "failed" => l.value \in [name : Names, text : {"cut", "whole"}]
         /\ l.kind = "stats" => l.value = TotalFiles
         /\ l.kind \in {"count", "retry"} => l.value \in Nat
         /\ l.kind = "size" => l.value \in Amounts
BY DEF Lines, Line

\* The value First returns is one of a line of the kind, if there is one.
LEMMA FirstIsIn ==
  ASSUME NEW lines \in Seq(Lines), NEW kind, NEW default
  PROVE  \/ Of(lines, kind) = {} /\ First(lines, kind, default) = default
         \/ \E i \in Of(lines, kind) : First(lines, kind, default) = lines[i].value
<1>1. Of(lines, kind) \subseteq Nat
  BY DEF Of
<1>2. Of(lines, kind) # {} => Min(Of(lines, kind)) \in Of(lines, kind)
  BY <1>1, MinIsIn
<1> QED
  BY <1>2 DEF First

\* And so is the value Last returns.
LEMMA LastIsIn ==
  ASSUME NEW lines \in Seq(Lines), NEW kind, NEW default
  PROVE  \/ Of(lines, kind) = {} /\ Last(lines, kind, default) = default
         \/ \E i \in Of(lines, kind) : Last(lines, kind, default) = lines[i].value
<1>1. Of(lines, kind) \subseteq 1..Len(lines) /\ Len(lines) \in Nat
  BY DEF Of
<1>2. Of(lines, kind) # {} => Max(Of(lines, kind)) \in Of(lines, kind)
  BY <1>1, MaxIsIn
<1> QED
  BY <1>2 DEF Last

\* The lines of a kind in a text, by their index.
LEMMA OfLines ==
  ASSUME NEW lines \in Seq(Lines), NEW kind, NEW i \in Of(lines, kind)
  PROVE  i \in 1..Len(lines) /\ lines[i] \in Lines /\ lines[i].kind = kind
BY DEF Of

\* What the fields of a progress may be.
Pcts     == 0..100 \cup {Nil}
Datas    == Amounts \cup {Nil}
Totals   == {TotalFiles, Nil}
FileSets == SUBSET [name : Names, text : {"cut", "whole"}]
Tries    == Nat \cup {Nil}
Codes    == ExitCodes \cup {Nil}

\* What the parser returns.
Parsed == [pct : Pcts, data : Datas, total : Totals, files : Nat,
           failed : FileSets, retries : Tries]

\* What parseRsyncLogs returns, whatever text it is given.
LEMMA ParseType ==
  ASSUME NEW lines \in Seq(Lines)
  PROVE  ParseRsyncLogs(lines) \in Parsed
<1> USE DEF Pcts, Datas, Totals, FileSets, Tries
<1> DEFINE shown == Last(lines, "progress", [pct |-> Nil, data |-> Nil])
           in    == ParseRsyncLogs(lines)
<1>1. shown.pct \in 0..100 \cup {Nil} /\ shown.data \in Amounts \cup {Nil}
  <2>1. CASE shown = [pct |-> Nil, data |-> Nil]
    BY <2>1
  <2>2. CASE \E i \in Of(lines, "progress") : shown = lines[i].value
    BY <2>2, OfLines, ValueOfLine
  <2> QED
    BY <2>1, <2>2, LastIsIn
<1>2. First(lines, "size", shown.data) \in Amounts \cup {Nil}
  BY <1>1, FirstIsIn, OfLines, ValueOfLine
<1>3. Last(lines, "stats", Nil) \in {TotalFiles, Nil}
  BY LastIsIn, OfLines, ValueOfLine
<1>4. First(lines, "count", 0) \in Nat
  BY FirstIsIn, OfLines, ValueOfLine
<1>5. First(lines, "retry", Nil) \in Nat \cup {Nil}
  BY FirstIsIn, OfLines, ValueOfLine
<1>6. Failed(lines) \subseteq [name : Names, text : {"cut", "whole"}]
  BY OfLines, ValueOfLine DEF Failed
<1> QED
  BY <1>1, <1>2, <1>3, <1>4, <1>5, <1>6 DEF ParseRsyncLogs, Parsed

\* The failed files of a text are new, each is there once, and no file of the
\* text is left out.
LEMMA FailedIsNew ==
  ASSUME NEW lines \in Seq(Lines)
  PROVE  /\ \A f \in Failed(lines) : f.name \notin seen
         /\ \A f, g \in Failed(lines) : f.name = g.name => f = g
         /\ \A i \in Of(lines, "failed") : \/ lines[i].value.name \in seen
                                           \/ \E f \in Failed(lines) : f.name = lines[i].value.name
<1>1. \A f \in Failed(lines) : f.name \notin seen
  BY DEF Failed
<1>2. ASSUME NEW f \in Failed(lines), NEW g \in Failed(lines), f.name = g.name
      PROVE  f = g
  <2>1. PICK i \in Of(lines, "failed") :
          /\ f = lines[i].value
          /\ \A j \in Of(lines, "failed") : lines[j].value.name = f.name => i <= j
    BY DEF Failed
  <2>2. PICK k \in Of(lines, "failed") :
          /\ g = lines[k].value
          /\ \A j \in Of(lines, "failed") : lines[j].value.name = g.name => k <= j
    BY DEF Failed
  <2>3. i \in Nat /\ k \in Nat
    BY DEF Of
  <2>4. i <= k /\ k <= i
    BY <1>2, <2>1, <2>2
  <2> QED
    BY <2>1, <2>2, <2>3, <2>4
<1>3. ASSUME NEW i \in Of(lines, "failed"), lines[i].value.name \notin seen
      PROVE  \E f \in Failed(lines) : f.name = lines[i].value.name
  <2> DEFINE same == {j \in Of(lines, "failed") : lines[j].value.name = lines[i].value.name}
  <2>1. same \subseteq Nat /\ same # {}
    BY DEF Of
  <2>2. Min(same) \in same /\ \A j \in same : Min(same) <= j
    BY <2>1, MinIsIn
  <2>3. PICK m \in same : \A j \in same : m <= j
    BY <2>2
  <2>4. lines[m].value \in Failed(lines)
    BY <1>3, <2>3 DEF Failed
  <2> QED
    BY <2>3, <2>4
<1> QED
  BY <1>1, <1>2, <1>3

\* The text of a round: the lines after line p to line q, and the beginning of
\* the next one.
Chunk(p, q, c) == SubSeq(log, p + 1, q) \o Beginning(q, c)

CutOK(q, c) == c = 0 \/ (q < Len(log) /\ c \in 1..Len(Beginnings(log[q + 1])))

\* What the parser finds in the beginning of a line is a line of its kind, and
\* but for two kinds that very line.
LEMMA BeginningsOfLine ==
  ASSUME NEW l \in Lines, NEW c \in 1..Len(Beginnings(l))
  PROVE  /\ Beginnings(l)[c] \in Lines
         /\ Beginnings(l)[c].kind = l.kind
         /\ l.kind \notin {"count", "failed"} => Beginnings(l)[c] = l
<1>1. CASE l.kind = "count" /\ l.value > 9
  <2>1. l.value \in Nat /\ l = Line("count", l.value)
    BY <1>1 DEF Lines, Line
  <2>2. Beginnings(l) = <<Line("count", l.value \div 10), l>>
    BY <1>1 DEF Beginnings
  <2>3. Line("count", l.value \div 10) \in Lines
    <3>1. l.value \div 10 \in Nat
      BY <2>1
    <3> QED
      BY <3>1 DEF Lines
  <2>4. c \in {1, 2}
    BY <2>2
  <2> QED
    BY <1>1, <2>2, <2>3, <2>4 DEF Line
<1>2. CASE l.kind = "failed"
  <2>1. l.value \in [name : Names, text : {"cut", "whole"}]
    BY <1>2, ValueOfLine
  <2>2. Beginnings(l) = <<Line("failed", [l.value EXCEPT !.text = "cut"]), l>>
    BY <1>2 DEF Beginnings
  <2>3. Line("failed", [l.value EXCEPT !.text = "cut"]) \in Lines
    BY <2>1 DEF Lines
  <2>4. c \in {1, 2}
    BY <2>2
  <2> QED
    BY <1>2, <2>2, <2>3, <2>4 DEF Line
<1>3. CASE ~(l.kind = "count" /\ l.value > 9) /\ l.kind # "failed"
  <2>1. Beginnings(l) = <<l>>
    BY <1>3 DEF Beginnings
  <2> QED
    BY <2>1
<1> QED
  BY <1>1, <1>2, <1>3

\* A chunk is a text; line k of it stands for line p + k of the log.
LEMMA ChunkIsText ==
  ASSUME log \in Seq(Lines),
         NEW p \in 0..Len(log), NEW q \in p..Len(log), NEW c \in Nat, CutOK(q, c)
  PROVE  /\ Chunk(p, q, c) \in Seq(Lines)
         /\ Len(Chunk(p, q, c)) >= q - p
         /\ \A k \in 1..(q - p) : Chunk(p, q, c)[k] = log[p + k]
         /\ \A k \in 1..Len(Chunk(p, q, c)) :
              /\ p + k \in 1..Len(log) /\ p + k <= q + 1
              /\ Chunk(p, q, c)[k].kind = log[p + k].kind
              /\ log[p + k].kind \notin {"count", "failed"} =>
                   Chunk(p, q, c)[k] = log[p + k]
<1> DEFINE sub == SubSeq(log, p + 1, q)
           beg == Beginning(q, c)
<1>1. /\ sub \in Seq(Lines)
      /\ Len(sub) = q - p
      /\ \A k \in 1..(q - p) : sub[k] = log[p + k]
  <2>1. CASE q = p
    BY <2>1
  <2>2. CASE q > p
    BY <2>2
  <2> QED
    BY <2>1, <2>2
<1>2. CASE c = 0
  <2>1. beg = <<>>
    BY <1>2 DEF Beginning
  <2>2. Chunk(p, q, c) = sub
    BY <1>1, <2>1, ConcatEmptySeq DEF Chunk
  <2> QED
    BY <1>1, <2>2
<1>3. CASE c # 0
  <2> DEFINE b == Beginnings(log[q + 1])[c]
  <2>1. q < Len(log) /\ c \in 1..Len(Beginnings(log[q + 1])) /\ log[q + 1] \in Lines
    BY <1>3 DEF CutOK
  <2>2. /\ b \in Lines /\ b.kind = log[q + 1].kind
        /\ log[q + 1].kind \notin {"count", "failed"} => b = log[q + 1]
    BY <2>1, BeginningsOfLine
  <2>3. beg = <<b>>
    BY <1>3 DEF Beginning
  <2> HIDE DEF b, sub
  <2>4. <<b>> \in Seq(Lines) /\ Len(<<b>>) = 1 /\ <<b>>[1] = b
    BY <2>2
  <2>5. /\ sub \o <<b>> \in Seq(Lines)
        /\ Len(sub \o <<b>>) = (q - p) + 1
        /\ \A k \in 1..(q - p) + 1 :
             (sub \o <<b>>)[k] = IF k <= q - p THEN log[p + k] ELSE b
    <3>1. /\ sub \o <<b>> \in Seq(Lines)
          /\ Len(sub \o <<b>>) = Len(sub) + Len(<<b>>)
          /\ \A k \in 1..Len(sub) + Len(<<b>>) :
               (sub \o <<b>>)[k] = IF k <= Len(sub) THEN sub[k] ELSE <<b>>[k - Len(sub)]
      BY <1>1, <2>4, ConcatProperties
    <3>2. Len(sub) + Len(<<b>>) = (q - p) + 1
      BY <1>1, <2>4
    <3>3. ASSUME NEW k \in 1..(q - p) + 1
          PROVE  (sub \o <<b>>)[k] = IF k <= q - p THEN log[p + k] ELSE b
      <4>1. (sub \o <<b>>)[k] = IF k <= Len(sub) THEN sub[k] ELSE <<b>>[k - Len(sub)]
        BY <3>1, <3>2
      <4>2. k <= q - p => k \in 1..(q - p)
        OBVIOUS
      <4>3. ~(k <= q - p) => k - Len(sub) = 1
        BY <1>1
      <4> QED
        BY <1>1, <2>4, <4>1, <4>2, <4>3
    <3> QED
      BY <3>1, <3>2, <3>3
  <2>6. Chunk(p, q, c) = sub \o <<b>>
    BY <2>3 DEF Chunk, sub
  <2>7. \A k \in 1..(q - p) + 1 : k <= q - p \/ p + k = q + 1
    OBVIOUS
  <2> QED
    BY <2>1, <2>2, <2>5, <2>6, <2>7
<1> QED
  BY <1>2, <1>3
-----------------------------------------------------------------------------
(* Amounts and percentages.                                                *)

\* The sum of two amounts is an amount.
LEMMA AddDataSizeType ==
  ASSUME NEW a \in Amounts, NEW b \in Amounts
  PROVE  AddDataSize(a, b) \in Amounts
<1>1. ASSUME NEW v \in Nat, NEW n PROVE v \div PowerOfTen(n) \in Nat
  <2>1. PowerOfTen(n) \in {1, 1000, 1000000, 1000000000, 1000000000000}
    BY DEF PowerOfTen
  <2> QED
    BY <2>1
<1>2. /\ a.val \in Nat /\ b.val \in Nat /\ a.unit \in Units /\ b.unit \in Units
  BY DEF Amounts
<1>3. a.val \div PowerOfTen(b.unit - a.unit) \in Nat /\ b.val \div PowerOfTen(a.unit - b.unit) \in Nat
  BY <1>1, <1>2
<1>4. CASE a.unit <= b.unit
  BY <1>2, <1>3, <1>4 DEF AddDataSize, Amounts
<1>5. CASE ~(a.unit <= b.unit)
  BY <1>2, <1>3, <1>5 DEF AddDataSize, Amounts
<1> QED
  BY <1>4, <1>5

Progresses == [pct : Pcts, data : Datas, total : Totals, files : Nat,
               failed : FileSets, retries : Tries, code : Codes]

\* What the progress, the past attempts and the files seen have to do with
\* each other.
ProgressInv ==
  /\ progress \in Progresses
  /\ past \in [pct : Pcts, data : Datas]
  /\ progress.pct = Nil => past.pct = Nil
  /\ progress.data = Nil => past.data = Nil
  /\ seen = {f.name : f \in progress.failed}
  /\ \A f, g \in progress.failed : f.name = g.name => f = g

\* The types of the fields of a progress, one by one.
LEMMA FieldsOfProgress ==
  ASSUME NEW p \in Progresses
  PROVE  /\ p.pct \in Pcts /\ p.data \in Datas /\ p.total \in Totals /\ p.files \in Nat
         /\ p.failed \in FileSets /\ p.retries \in Tries /\ p.code \in Codes
BY DEF Progresses

\* No percentage is above that of a success.
LEMMA PctsAreAtMost100 ==
  \A a \in Pcts : a # Nil => 100 >= a
BY DEF Pcts

\* Merging keeps the percentage between what it was and 100.
LEMMA MergePctGrows ==
  ASSUME ProgressInv, NEW in \in Parsed, NEW p \in Progresses, p.pct = progress.pct
  PROVE  /\ MergePct(p, in) \in Pcts
         /\ p.pct # Nil => MergePct(p, in) # Nil /\ MergePct(p, in) >= p.pct
<1> USE ProgressAssumption DEF Pcts, Datas, Totals, FileSets, Tries, Codes
<1>1. AllAttempts(in) \in Nat \cup {Nil}
  BY DEF AllAttempts, ProgressInv, Parsed
<1>2. p.pct = Nil => AllAttempts(in) \in Pcts
  BY DEF AllAttempts, ProgressInv, Parsed
<1>3. p.pct \in Pcts
  BY FieldsOfProgress
<1> QED
  BY <1>1, <1>2, <1>3 DEF MergePct

\* Merging never lowers the number before the unit of the transferred data.
LEMMA MergeDataGrows ==
  ASSUME ProgressInv, NEW in \in Parsed, NEW p \in Progresses, p.data = progress.data
  PROVE  /\ MergeData(p, in) \in Datas
         /\ p.data # Nil => MergeData(p, in) # Nil /\ MergeData(p, in).val >= p.data.val
         /\ p.data = Nil => MergeData(p, in) = in.data
<1> USE ProgressAssumption DEF Pcts, Datas, Totals, FileSets, Tries, Codes
<1> DEFINE sum == IF past.data = Nil THEN in.data
                  ELSE IF in.data = Nil THEN past.data ELSE AddDataSize(past.data, in.data)
<1>1. sum \in Datas
  BY AddDataSizeType DEF ProgressInv, Parsed
<1>2. p.data = Nil => sum = in.data
  BY DEF ProgressInv
<1>3. p.data \in Datas
  BY FieldsOfProgress
<1>4. MergeData(p, in) = IF sum # Nil /\ (p.data = Nil \/ sum.val > p.data.val) THEN sum ELSE p.data
  BY DEF MergeData
<1> HIDE DEF sum
<1>5. \A a \in Amounts : a.val \in Nat
  BY DEF Amounts
<1> QED
  BY <1>1, <1>2, <1>3, <1>4, <1>5

\* Ways to make a progress, as operators: their definitions, and the sets the
\* fields are in, are visible to the proofs of these three lemmas only.
WithCode(p, c) == [p EXCEPT !.code = c]

WithPct(p, c) == [p EXCEPT !.pct = c]

MadeOf(a, b, c, d, e, f, g) ==
  [pct |-> a, data |-> b, total |-> c, files |-> d, failed |-> e, retries |-> f, code |-> g]

\* What they leave as it is.
LEMMA WithCodeFields ==
  ASSUME NEW p \in Progresses, NEW c \in Codes
  PROVE  /\ WithCode(p, c) \in Progresses
         /\ WithCode(p, c).pct = p.pct /\ WithCode(p, c).data = p.data
         /\ WithCode(p, c).total = p.total /\ WithCode(p, c).files = p.files
         /\ WithCode(p, c).failed = p.failed /\ WithCode(p, c).retries = p.retries
         /\ WithCode(p, c).code = c
BY DEF Progresses, WithCode

\* The same of the percentage.
LEMMA WithPctFields ==
  ASSUME NEW p \in Progresses, NEW c \in Pcts
  PROVE  /\ WithPct(p, c) \in Progresses
         /\ WithPct(p, c).pct = c /\ WithPct(p, c).data = p.data
         /\ WithPct(p, c).total = p.total /\ WithPct(p, c).files = p.files
         /\ WithPct(p, c).failed = p.failed /\ WithPct(p, c).retries = p.retries
         /\ WithPct(p, c).code = p.code
BY DEF Progresses, WithPct

\* The fields of a progress that is made of its fields.
LEMMA MadeOfFields ==
  ASSUME NEW a \in Pcts, NEW b \in Datas, NEW c \in Totals, NEW d \in Nat, NEW e \in FileSets,
         NEW f \in Tries, NEW g \in Codes
  PROVE  LET q == MadeOf(a, b, c, d, e, f, g) IN
         /\ q \in Progresses
         /\ q.pct = a /\ q.data = b /\ q.total = c /\ q.files = d
         /\ q.failed = e /\ q.retries = f /\ q.code = g
BY DEF Progresses, MadeOf

\* What parsing and merging any text does to the progress.
LEMMA ParseGrows ==
  ASSUME ProgressInv, progress.code = Nil,
         NEW lines \in Seq(Lines), NEW code \in Codes, Parse(lines, code)
  PROVE  /\ ProgressInv'
         /\ progress'.code = code
         /\ progress.pct # Nil => progress'.pct # Nil /\ progress'.pct >= progress.pct
         /\ progress'.files >= progress.files
         /\ progress.failed \subseteq progress'.failed
         /\ progress.total # Nil => progress'.total = progress.total
         /\ progress.data # Nil => progress'.data # Nil /\ progress'.data.val >= progress.data.val
         /\ progress'.retries = IF First(lines, "retry", Nil) = Nil
                                THEN progress.retries ELSE First(lines, "retry", Nil)
         /\ Of(lines, "stats") # {} => progress'.total # Nil
         /\ Of(lines, "progress") # {} => progress'.data # Nil
         /\ progress.data = Nil /\ progress'.data # Nil =>
              progress'.data.val > 0 \/ Of(lines, "size") # {}
         /\ \A i \in Of(lines, "failed") :
              \E f \in progress'.failed : f.name = lines[i].value.name
<1> USE ProgressAssumption DEF Pcts, Datas, Totals, FileSets, Tries, Codes
<1>0. Nil \notin Nat /\ 100 \in Pcts /\ 100 # Nil
  OBVIOUS
<1> DEFINE in     == ParseRsyncLogs(lines)
           p      == WithCode(progress, code)
           merged == Merge(p, in)
<1>1. /\ in \in Parsed
      /\ in.retries = First(lines, "retry", Nil)
      /\ in.failed = Failed(lines)
      /\ in.total = Last(lines, "stats", Nil)
  BY ParseType DEF ParseRsyncLogs
<1>2. /\ p \in Progresses /\ p.pct = progress.pct /\ p.data = progress.data
      /\ p.files = progress.files /\ p.failed = progress.failed
      /\ p.total = progress.total /\ p.retries = progress.retries /\ p.code = code
  <2>1. progress \in Progresses
    BY DEF ProgressInv
  <2> QED
    BY <2>1, WithCodeFields
<1>3. /\ progress' = AsString(merged)
      /\ past' = IF in.retries = Nil THEN past ELSE [pct |-> merged.pct, data |-> merged.data]
      /\ seen' = seen \cup {f.name : f \in in.failed}
  BY Zenon DEF Parse, WithCode
<1> HIDE DEF in, p
<1>4. /\ merged \in Progresses
      /\ merged.pct = MergePct(p, in) /\ merged.data = MergeData(p, in)
      /\ merged.files = progress.files + in.files
      /\ merged.failed = progress.failed \cup in.failed
      /\ merged.total = MergeTotal(p, in)
      /\ merged.retries = IF in.retries = Nil THEN progress.retries ELSE in.retries
      /\ merged.code = code
  <2> DEFINE pct == MergePct(p, in)
             data == MergeData(p, in)
             total == MergeTotal(p, in)
             files == p.files + in.files
             failed == p.failed \cup in.failed
             retries == IF in.retries = Nil THEN p.retries ELSE in.retries
  <2>1. pct \in Pcts /\ data \in Datas
    BY <1>1, <1>2, MergePctGrows, MergeDataGrows
  <2>2. total \in Totals
    BY <1>1, <1>2, FieldsOfProgress DEF MergeTotal, Parsed
  <2>3. files \in Nat /\ failed \in FileSets /\ retries \in Tries
    BY <1>1, <1>2, FieldsOfProgress DEF Parsed
  <2>4. p.code \in Codes
    BY <1>2
  <2>5. merged = MadeOf(pct, data, total, files, failed, retries, p.code)
    BY Zenon DEF Merge, MadeOf
  <2>6. /\ files = progress.files + in.files /\ failed = progress.failed \cup in.failed
        /\ retries = IF in.retries = Nil THEN progress.retries ELSE in.retries
    BY <1>2
  <2> HIDE ProgressAssumption DEF Pcts, Datas, Totals, FileSets, Tries, Codes
  <2> HIDE DEF pct, data, total, files, failed, retries, merged
  <2>7. /\ merged \in Progresses
        /\ merged.pct = pct /\ merged.data = data /\ merged.total = total /\ merged.files = files
        /\ merged.failed = failed /\ merged.retries = retries /\ merged.code = p.code
    BY <2>1, <2>2, <2>3, <2>4, <2>5, MadeOfFields
  <2> QED
    BY <1>2, <2>6, <2>7 DEF pct, data, total
<1> HIDE DEF merged
<1>5. /\ progress' \in Progresses
      /\ progress'.pct = IF code = 0 THEN 100 ELSE merged.pct
      /\ progress'.data = merged.data /\ progress'.files = merged.files
      /\ progress'.failed = merged.failed /\ progress'.total = merged.total
      /\ progress'.retries = merged.retries /\ progress'.code = code
  <2>1. Status(merged) = "Succeeded" <=> code = 0
    BY <1>4 DEF Status
  <2>2. progress' = IF code = 0 THEN WithPct(merged, 100) ELSE merged
    BY <1>3, <2>1 DEF AsString, WithPct
  <2> HIDE ProgressAssumption DEF Pcts, Datas, Totals, FileSets, Tries, Codes
  <2>3. CASE code = 0
    BY <1>0, <1>4, <2>2, <2>3, WithPctFields
  <2>4. CASE code # 0
    BY <1>4, <2>2, <2>4
  <2> QED
    BY <2>3, <2>4
<1>6. /\ progress.pct # Nil => progress'.pct # Nil /\ progress'.pct >= progress.pct
      /\ merged.pct # Nil => progress'.pct # Nil
  <2>1. progress.pct # Nil => merged.pct # Nil /\ merged.pct >= progress.pct
    BY <1>1, <1>2, <1>4, MergePctGrows
  <2>2. progress.pct \in Pcts /\ 100 # Nil
    BY FieldsOfProgress DEF ProgressInv
  <2>3. CASE code = 0
    <3>1. progress'.pct = 100
      BY <1>5, <2>3
    <3> QED
      BY Zenon, <2>2, <3>1, PctsAreAtMost100
  <2>4. CASE code # 0
    BY <1>5, <2>1, <2>4
  <2> QED
    BY <2>3, <2>4
<1>7. /\ progress.data # Nil => progress'.data # Nil /\ progress'.data.val >= progress.data.val
      /\ progress.data = Nil => progress'.data = in.data
  BY <1>1, <1>2, <1>4, <1>5, MergeDataGrows
<1>8. /\ progress.total # Nil => progress'.total = progress.total
      /\ in.total # Nil => progress'.total # Nil
  BY <1>1, <1>2, <1>4, <1>5, FieldsOfProgress DEF MergeTotal, Parsed
<1>9. Of(lines, "stats") # {} => in.total # Nil
  BY <1>1, LastIsIn, OfLines, ValueOfLine
<1>10. /\ Of(lines, "progress") # {} => in.data # Nil
       /\ in.data # Nil => in.data.val > 0 \/ Of(lines, "size") # {}
  <2> DEFINE shown == Last(lines, "progress", [pct |-> Nil, data |-> Nil])
  <2>1. in.data = First(lines, "size", shown.data)
    BY DEF in, ParseRsyncLogs
  <2>2. Of(lines, "progress") = {} => shown.data = Nil
    BY LastIsIn
  <2>3. Of(lines, "progress") # {} => shown.data \in Amounts /\ shown.data.val > 0
    BY LastIsIn, OfLines, ValueOfLine
  <2> HIDE DEF shown
  <2>4. CASE Of(lines, "size") = {}
    BY <2>1, <2>2, <2>3, <2>4, FirstIsIn
  <2>5. CASE Of(lines, "size") # {}
    <3>1. in.data \in Amounts
      BY <2>1, <2>5, FirstIsIn, OfLines, ValueOfLine
    <3> QED
      BY <2>5, <3>1
  <2> QED
    BY <2>4, <2>5
<1>11. /\ seen' = {f.name : f \in progress'.failed}
       /\ \A f, g \in progress'.failed : f.name = g.name => f = g
       /\ \A i \in Of(lines, "failed") : \E f \in progress'.failed : f.name = lines[i].value.name
  <2>1. /\ progress'.failed = progress.failed \cup Failed(lines)
        /\ seen = {f.name : f \in progress.failed}
        /\ seen' = seen \cup {f.name : f \in Failed(lines)}
    BY <1>1, <1>3, <1>4, <1>5 DEF ProgressInv
  <2>2. seen' = {f.name : f \in progress'.failed}
    BY <2>1
  <2>3. \A f \in progress.failed : f.name \in seen
    BY <2>1
  <2>4. \A f, g \in progress.failed : f.name = g.name => f = g
    BY DEF ProgressInv
  <2>5. \A f, g \in progress'.failed : f.name = g.name => f = g
    BY <2>1, <2>3, <2>4, FailedIsNew
  <2>6. \A n \in seen : \E f \in progress'.failed : f.name = n
    BY <2>1
  <2>7. \A i \in Of(lines, "failed") : \E f \in progress'.failed : f.name = lines[i].value.name
    BY <2>1, <2>6, FailedIsNew
  <2> QED
    BY <2>2, <2>5, <2>7
<1>12. /\ past' \in [pct : Pcts, data : Datas]
       /\ progress'.pct = Nil => past'.pct = Nil
       /\ progress'.data = Nil => past'.data = Nil
  <2>1. /\ merged.pct \in Pcts /\ merged.data \in Datas
    BY <1>4, FieldsOfProgress
  <2>2. CASE in.retries = Nil
    BY <1>3, <1>6, <1>7, <2>2 DEF ProgressInv
  <2>3. CASE in.retries # Nil
    BY <1>3, <1>5, <1>6, <2>1, <2>3
  <2> QED
    BY <2>2, <2>3
<1>13. progress'.files >= progress.files
  BY <1>1, <1>4, <1>5, FieldsOfProgress DEF ProgressInv, Parsed
<1>14. ProgressInv'
  BY <1>5, <1>11, <1>12 DEF ProgressInv
<1> QED
  BY <1>1, <1>4, <1>5, <1>6, <1>7, <1>8, <1>9, <1>10, <1>11, <1>13, <1>14
-----------------------------------------------------------------------------
(* The inductive invariant.                                                *)

\* The log is made of lines; a count follows the statistics, a size a count; the
\* retries are numbered upwards.
LogInv ==
  /\ log \in Seq(Lines)
  /\ \A i \in Of(log, "count") : i - 1 \in Of(log, "stats")
  /\ \A i \in Of(log, "size") : i - 1 \in Of(log, "count")
  /\ \A i \in Of(log, "retry") : log[i].value <= Retries
  /\ \A i, j \in Of(log, "retry") : i <= j => log[i].value <= log[j].value

PosInv ==
  /\ pos \in 0..Len(log)
  /\ cut \in Nat /\ CutOK(pos, cut)
  /\ zeroBytes \in 0..(MaxZeroReads + 1)
  /\ rd \in {"read", "ended"}
  /\ rd = "read" => zeroBytes <= MaxZeroReads

\* What the progress knows of the lines that were parsed.
ParsedInv ==
  /\ \A i \in Of(log, "stats") : i <= pos => progress.total # Nil
  /\ \A i \in Of(log, "progress") :
       i <= pos => progress.total # Nil \/ (progress.data # Nil /\ progress.data.val > 0)
  /\ \A i \in Of(log, "failed") :
       i <= pos => \E f \in progress.failed : f.name = log[i].value.name

\* As long as it reads, the goroutine has no exit code; that nothing has been
\* transferred it knows from the statistics only; and the retries still to be
\* parsed are not before the one it knows of.
ReadingInv ==
  rd = "read" =>
    /\ progress.code = Nil
    /\ progress.data # Nil => progress.total # Nil \/ progress.data.val > 0
    /\ progress.retries # Nil =>
         /\ progress.retries <= Retries
         /\ \A i \in Of(log, "retry") : i > pos => log[i].value >= progress.retries

IInv == ProgressInv /\ LogInv /\ PosInv /\ ParsedInv /\ ReadingInv

\* The invariant holds before anything is read.
LEMMA InvInit == Init => IInv
<1> SUFFICES ASSUME Init PROVE IInv
  OBVIOUS
<1> USE ProgressAssumption
<1>1. /\ log = <<>> /\ pos = 0 /\ cut = 0 /\ zeroBytes = 0 /\ rd = "read" /\ seen = {}
      /\ progress = NoProgress /\ past = [pct |-> Nil, data |-> Nil]
  BY DEF Init
<1>2. \A kind : Of(log, kind) = {}
  BY <1>1 DEF Of
<1>3. /\ progress = MadeOf(Nil, Nil, Nil, 0, {}, Nil, Nil)
  BY <1>1 DEF NoProgress, MadeOf
<1>4. /\ progress \in Progresses
      /\ progress.pct = Nil /\ progress.data = Nil /\ progress.retries = Nil
      /\ progress.failed = {} /\ progress.code = Nil
  <2>1. Nil \in Pcts /\ Nil \in Datas /\ Nil \in Totals /\ {} \in FileSets /\ Nil \in Tries /\ Nil \in Codes
    BY DEF Pcts, Datas, Totals, FileSets, Tries, Codes
  <2> HIDE ProgressAssumption
  <2> QED
    BY <1>3, <2>1, MadeOfFields
<1>5. ProgressInv
  BY <1>1, <1>4 DEF ProgressInv, Pcts, Datas
<1>6. LogInv
  BY <1>1, <1>2 DEF LogInv
<1>7. PosInv
  BY <1>1 DEF PosInv, CutOK
<1>8. ParsedInv /\ ReadingInv
  BY <1>2, <1>4 DEF ParsedInv, ReadingInv
<1> QED
  BY <1>5, <1>6, <1>7, <1>8 DEF IInv

\* The retries in the log can be counted.
LEMMA RetriesType ==
  ASSUME log \in Seq(Lines)
  PROVE  IsFiniteSet(Of(log, "retry")) /\ Retries \in Nat
<1>1. Len(log) \in Nat /\ Of(log, "retry") \subseteq 1..Len(log)
  BY DEF Of
<1>2. IsFiniteSet(1..Len(log))
  BY <1>1, FS_Interval
<1>3. IsFiniteSet(Of(log, "retry"))
  BY Zenon, <1>1, <1>2, FS_Subset
<1> QED
  BY <1>3, FS_CardinalityType DEF Retries

\* Writing a line: the lines before it stay.
LEMMA AppendedLog ==
  ASSUME log \in Seq(Lines), NEW l \in Lines, log' = Append(log, l)
  PROVE  /\ log' \in Seq(Lines)
         /\ Len(log') = Len(log) + 1
         /\ \A i \in 1..Len(log) : log'[i] = log[i]
         /\ log'[Len(log) + 1] = l
         /\ \A kind : Of(log, kind) \subseteq 1..Len(log)
         /\ \A kind : Of(log', kind) = IF l.kind = kind THEN Of(log, kind) \cup {Len(log) + 1}
                                       ELSE Of(log, kind)
<1>1. /\ log' \in Seq(Lines)
      /\ Len(log') = Len(log) + 1
      /\ \A i \in 1..Len(log) : log'[i] = log[i]
      /\ log'[Len(log) + 1] = l
  OBVIOUS
<1>2. DOMAIN log = 1..Len(log) /\ DOMAIN log' = 1..Len(log) + 1 /\ Len(log) \in Nat
  BY <1>1
<1>3. \A kind : Of(log, kind) \subseteq 1..Len(log)
  BY <1>2 DEF Of
<1>4. ASSUME NEW kind
      PROVE  Of(log', kind) = IF l.kind = kind THEN Of(log, kind) \cup {Len(log) + 1}
                              ELSE Of(log, kind)
  <2>1. Of(log', kind) = {i \in 1..Len(log) + 1 : log'[i].kind = kind}
    BY <1>2 DEF Of
  <2>2. Of(log, kind) = {i \in 1..Len(log) : log[i].kind = kind}
    BY <1>2 DEF Of
  <2>3. 1..Len(log) + 1 = (1..Len(log)) \cup {Len(log) + 1}
    BY <1>2
  <2> QED
    BY <1>1, <2>1, <2>2, <2>3
<1> QED
  BY <1>1, <1>3, <1>4

\* A line may be written where its kind may come: nothing that was parsed changes.
LEMMA WriteStep ==
  ASSUME IInv, NEW kind, NEW value, Write(kind, value), Line(kind, value) \in Lines,
         kind = "count" => LastKind = "stats",
         kind = "size" => LastKind = "count",
         kind = "retry" => value = Retries + 1
  PROVE  IInv'
<1> DEFINE l == Line(kind, value)
<1>1. /\ rd = "read" /\ log' = Append(log, l)
      /\ pos' = pos /\ cut' = cut /\ zeroBytes' = zeroBytes /\ rd' = rd
      /\ progress' = progress /\ past' = past /\ seen' = seen
  BY DEF Write
<1>2. l \in Lines /\ l.kind = kind /\ l.value = value
  BY DEF Line
<1> HIDE DEF l
<1>3. /\ log' \in Seq(Lines)
      /\ Len(log') = Len(log) + 1 /\ Len(log) \in Nat
      /\ \A i \in 1..Len(log) : log'[i] = log[i]
      /\ log'[Len(log) + 1] = l
      /\ \A k : Of(log, k) \subseteq 1..Len(log)
      /\ \A k : Of(log', k) = IF kind = k THEN Of(log, k) \cup {Len(log) + 1} ELSE Of(log, k)
  BY <1>1, <1>2, AppendedLog DEF IInv, LogInv
<1>4. LastKind # "none" => Len(log) \in Of(log, LastKind)
  BY DEF LastKind, Of, IInv, LogInv
<1>5. /\ Retries \in Nat
      /\ Retries' = IF kind = "retry" THEN Retries + 1 ELSE Retries
  <2>1. IsFiniteSet(Of(log, "retry")) /\ Retries \in Nat
    BY RetriesType DEF IInv, LogInv
  <2>2. Len(log) + 1 \notin Of(log, "retry")
    BY <1>3
  <2>4. Cardinality(Of(log, "retry") \cup {Len(log) + 1}) = Retries + 1
    BY <2>1, <2>2, FS_AddElement DEF Retries
  <2>5. Retries' = Cardinality(Of(log', "retry"))
    BY DEF Retries
  <2>6. CASE kind = "retry"
    BY <1>3, <2>1, <2>4, <2>5, <2>6
  <2>7. CASE kind # "retry"
    BY <1>3, <2>1, <2>5, <2>7 DEF Retries
  <2> QED
    BY <2>1, <2>6, <2>7
<1>6. LogInv'
  <2>1. \A i \in Of(log', "count") : i - 1 \in Of(log', "stats")
    <3>1. \A i \in Of(log, "count") : i - 1 \in Of(log, "stats")
      BY DEF IInv, LogInv
    <3>2. kind = "count" => (Len(log) + 1) - 1 \in Of(log, "stats")
      BY <1>3, <1>4
    <3> QED
      BY <1>3, <3>1, <3>2
  <2>2. \A i \in Of(log', "size") : i - 1 \in Of(log', "count")
    <3>1. \A i \in Of(log, "size") : i - 1 \in Of(log, "count")
      BY DEF IInv, LogInv
    <3>2. kind = "size" => (Len(log) + 1) - 1 \in Of(log, "count")
      BY <1>3, <1>4
    <3> QED
      BY <1>3, <3>1, <3>2
  <2>3. \A i \in Of(log, "retry") : log'[i].value = log[i].value /\ log[i].value \in Nat /\ log[i].value <= Retries
    <3>1. \A i \in Of(log, "retry") : log[i].value \in Nat
      BY OfLines, ValueOfLine DEF IInv, LogInv
    <3> QED
      BY <1>3, <3>1 DEF IInv, LogInv
  <2>4. kind = "retry" => log'[Len(log) + 1].value = Retries + 1
    BY <1>2, <1>3
  <2>5. \A i \in Of(log', "retry") : i \in Of(log, "retry") \/ (kind = "retry" /\ i = Len(log) + 1)
    BY <1>3
  <2>6. \A i \in Of(log', "retry") : log'[i].value <= Retries'
    BY <1>5, <2>3, <2>4, <2>5
  <2>7. \A i, j \in Of(log, "retry") : i <= j => log[i].value <= log[j].value
    BY DEF IInv, LogInv
  <2>8. \A i \in Of(log, "retry") : i \in Nat /\ i <= Len(log)
    BY <1>3
  <2>9. ASSUME NEW i \in Of(log', "retry"), NEW j \in Of(log', "retry"), i <= j
        PROVE  log'[i].value <= log'[j].value
    BY <1>3, <1>5, <2>3, <2>4, <2>5, <2>7, <2>8, <2>9
  <2> QED
    BY <1>3, <2>1, <2>2, <2>6, <2>9 DEF LogInv
<1>7. PosInv'
  <2>1. pos \in 0..Len(log) /\ cut \in Nat /\ CutOK(pos, cut)
    BY DEF IInv, PosInv
  <2>2. CutOK(pos, cut)'
    <3>1. CASE cut = 0
      BY <1>1, <3>1 DEF CutOK
    <3>2. CASE cut # 0
      <4>1. pos < Len(log) /\ cut \in 1..Len(Beginnings(log[pos + 1]))
        BY <2>1, <3>2 DEF CutOK
      <4>2. log'[pos + 1] = log[pos + 1]
        BY <1>3, <2>1, <4>1
      <4> QED
        BY <1>1, <1>3, <2>1, <4>1, <4>2 DEF CutOK
    <3> QED
      BY <3>1, <3>2
  <2> QED
    BY <1>1, <1>3, <2>1, <2>2 DEF IInv, PosInv
<1>8. \A k : \A i \in Of(log', k) : i <= pos' => i \in Of(log, k) /\ log'[i] = log[i]
  BY <1>1, <1>3 DEF IInv, PosInv
<1>9. ParsedInv'
  BY <1>1, <1>8 DEF IInv, ParsedInv
<1>10. ReadingInv'
  <2>1. /\ progress.code = Nil
        /\ progress.data # Nil => progress.total # Nil \/ progress.data.val > 0
        /\ progress.retries # Nil =>
             /\ progress.retries <= Retries
             /\ \A i \in Of(log, "retry") : i > pos => log[i].value >= progress.retries
    BY <1>1 DEF IInv, ReadingInv
  <2>2. progress.retries # Nil => progress.retries \in Nat
    BY FieldsOfProgress DEF IInv, ProgressInv, Tries
  <2>3. ASSUME progress.retries # Nil
        PROVE  /\ progress.retries <= Retries'
               /\ \A i \in Of(log', "retry") : i > pos => log'[i].value >= progress.retries
    <3>1. kind = "retry" => log'[Len(log) + 1].value = Retries + 1
      BY <1>2, <1>3
    <3>2. \A i \in Of(log', "retry") : \/ i \in Of(log, "retry") /\ log'[i] = log[i]
                                       \/ kind = "retry" /\ i = Len(log) + 1
      BY <1>3
    <3> QED
      BY <1>5, <2>1, <2>2, <2>3, <3>1, <3>2
  <2> QED
    BY <1>1, <2>1, <2>3 DEF ReadingInv
<1>11. ProgressInv'
  BY <1>1 DEF IInv, ProgressInv
<1> QED
  BY <1>6, <1>7, <1>9, <1>10, <1>11 DEF IInv

\* rsync and the script around it write only such lines.
LEMMA RsyncStep ==
  ASSUME IInv, Rsync
  PROVE  IInv' /\ progress' = progress /\ rd' = rd
<1> USE ProgressAssumption
<1>1. /\ progress' = progress /\ rd' = rd
      /\ \E kind, value : /\ Write(kind, value) /\ Line(kind, value) \in Lines
                          /\ kind = "count" => LastKind = "stats"
                          /\ kind = "size" => LastKind = "count"
                          /\ kind = "retry" => value = Retries + 1
  <2>1. CASE RsyncCopies
    <3>1. ASSUME NEW p \in Percentages, Write("progress", [pct |-> p, data |-> DataAt[p]])
          PROVE  Line("progress", [pct |-> p, data |-> DataAt[p]]) \in Lines
      <4>1. [pct |-> p, data |-> DataAt[p]] \in [pct : 0..100, data : {a \in Amounts : a.val > 0}]
        OBVIOUS
      <4> QED
        BY <4>1 DEF Lines
    <3>2. ASSUME NEW f \in Names
          PROVE  Line("failed", [name |-> f, text |-> "whole"]) \in Lines
      BY DEF Lines
    <3>3. CASE \E p \in Percentages : Write("progress", [pct |-> p, data |-> DataAt[p]])
      BY <3>1, <3>3 DEF Write
    <3>4. CASE \E f \in Names : Write("failed", [name |-> f, text |-> "whole"])
      BY <3>2, <3>4 DEF Write
    <3> QED
      BY <2>1, <3>3, <3>4 DEF RsyncCopies
  <2>2. CASE RsyncEnds
    <3>1. CASE LastKind = "stats" /\ \E n \in Counts : Write("count", n)
      BY <3>1 DEF Lines, Write
    <3>2. CASE Write("stats", TotalFiles)
      BY <3>2 DEF Lines, Write
    <3>3. CASE LastKind = "count" /\ \E p \in Percentages : Write("size", DataAt[p])
      BY <3>3 DEF Lines, Write
    <3>4. CASE LastKind = "count" /\ Write("size", Nothing)
      <4>1. Nothing \in Amounts
        BY DEF Nothing, Amounts, Units
      <4> QED
        BY <3>4, <4>1 DEF Lines, Write
    <3> QED
      BY <2>2, <3>1, <3>2, <3>3, <3>4 DEF RsyncEnds
  <2>3. CASE RsyncRetries
    <3>1. Retries + 1 \in Nat
      BY RetriesType DEF IInv, LogInv
    <3> QED
      BY <2>3, <3>1 DEF RsyncRetries, Lines, Write
  <2> QED
    BY <2>1, <2>2, <2>3 DEF Rsync
<1> QED
  BY <1>1, WriteStep

\* Before and after the goroutine reads: what the progress never loses.
Grown ==
  /\ progress.pct # Nil => progress'.pct # Nil /\ progress'.pct >= progress.pct
  /\ progress'.files >= progress.files
  /\ progress.failed \subseteq progress'.failed
  /\ progress.total # Nil => progress'.total = progress.total
  /\ progress.retries # Nil /\ rd' = "read" => progress'.retries >= progress.retries

\* There is a first beginning of every line.
LEMMA BeginningsLen ==
  ASSUME NEW l
  PROVE  Len(Beginnings(l)) \in 1..2
BY DEF Beginnings

\* A round that parses the lines up to line q, and the beginning of the next one.
LEMMA RoundStep ==
  ASSUME IInv, rd = "read",
         NEW q \in pos..Len(log), NEW c \in Nat, CutOK(q, c), Parse(Chunk(pos, q, c), Nil),
         log' = log, pos' = q
  PROVE  /\ ProgressInv' /\ LogInv' /\ ParsedInv' /\ Grown
         /\ rd' = "read" => ReadingInv'
<1> DEFINE chunk == Chunk(pos, q, c)
<1>1. log \in Seq(Lines) /\ pos \in 0..Len(log) /\ Len(log) \in Nat
  BY DEF IInv, LogInv, PosInv
<1>2. /\ chunk \in Seq(Lines)
      /\ Len(chunk) >= q - pos
      /\ \A k \in 1..(q - pos) : chunk[k] = log[pos + k]
      /\ \A k \in 1..Len(chunk) :
           /\ pos + k \in 1..Len(log) /\ pos + k <= q + 1
           /\ chunk[k].kind = log[pos + k].kind
           /\ log[pos + k].kind \notin {"count", "failed"} => chunk[k] = log[pos + k]
  BY <1>1, ChunkIsText
<1>3. /\ Parse(chunk, Nil) /\ ProgressInv /\ progress.code = Nil /\ Nil \in Codes
  BY DEF IInv, ReadingInv, Codes
<1> HIDE DEF chunk
<1>4. /\ ProgressInv'
      /\ progress'.code = Nil
      /\ progress.pct # Nil => progress'.pct # Nil /\ progress'.pct >= progress.pct
      /\ progress'.files >= progress.files
      /\ progress.failed \subseteq progress'.failed
      /\ progress.total # Nil => progress'.total = progress.total
      /\ progress.data # Nil => progress'.data # Nil /\ progress'.data.val >= progress.data.val
      /\ progress'.retries = IF First(chunk, "retry", Nil) = Nil
                             THEN progress.retries ELSE First(chunk, "retry", Nil)
      /\ Of(chunk, "stats") # {} => progress'.total # Nil
      /\ Of(chunk, "progress") # {} => progress'.data # Nil
      /\ progress.data = Nil /\ progress'.data # Nil =>
           progress'.data.val > 0 \/ Of(chunk, "size") # {}
      /\ \A i \in Of(chunk, "failed") :
           \E f \in progress'.failed : f.name = chunk[i].value.name
  BY Zenon, <1>2, <1>3, ParseGrows
<1>5. LogInv'
  BY Zenon, <1>1 DEF IInv, LogInv, Of, Retries
<1>6. \A kind : Of(log', kind) = Of(log, kind) /\ Of(log, kind) \subseteq 1..Len(log)
  BY <1>1 DEF Of
\* A line between pos and q is in the chunk.
<1>7. \A kind : \A i \in Of(log, kind) :
        i > pos /\ i <= q => i - pos \in Of(chunk, kind) /\ chunk[i - pos] = log[i]
  <2>1. ASSUME NEW kind, NEW i \in Of(log, kind), i > pos, i <= q
        PROVE  i - pos \in Of(chunk, kind) /\ chunk[i - pos] = log[i]
    <3>1. log[i].kind = kind /\ i \in Nat
      BY <1>1 DEF Of
    <3>2. i - pos \in 1..(q - pos) /\ i - pos \in 1..Len(chunk) /\ pos + (i - pos) = i
      BY <1>1, <1>2, <2>1, <3>1
    <3>3. chunk[i - pos] = log[i]
      BY <1>2, <3>2
    <3> QED
      BY <1>2, <3>1, <3>2, <3>3 DEF Of
  <2> QED
    BY <2>1
\* A size in the chunk is a size of the log: the statistics before it have been
\* parsed by now.
<1>8. ASSUME Of(chunk, "size") # {}
      PROVE  progress'.total # Nil
  <2>1. PICK k \in Of(chunk, "size") : TRUE
    BY <1>8
  <2>2. k \in 1..Len(chunk) /\ pos + k \in Of(log, "size") /\ pos + k <= q + 1
    BY <1>1, <1>2 DEF Of
  <2>3. (pos + k) - 1 \in Of(log, "count")
    BY <2>2 DEF IInv, LogInv
  <2>4. ((pos + k) - 1) - 1 \in Of(log, "stats")
    BY <2>3 DEF IInv, LogInv
  <2>5. PICK s \in Of(log, "stats") : s <= q /\ s \in Nat
    BY <1>1, <1>2, <1>6, <2>2, <2>4
  <2>6. CASE s <= pos
    BY <1>4, <2>5, <2>6 DEF IInv, ParsedInv
  <2>7. CASE s > pos
    BY <1>4, <1>7, <2>5, <2>7
  <2> QED
    BY <1>1, <2>5, <2>6, <2>7
<1>9. progress'.data # Nil => progress'.total # Nil \/ progress'.data.val > 0
  <2>1. progress.data # Nil => progress.total # Nil \/ progress.data.val > 0
    BY DEF IInv, ReadingInv
  <2>2. CASE progress.data = Nil
    BY <1>4, <1>8, <2>2
  <2>3. CASE progress.data # Nil
    <3>1. progress.data \in Amounts /\ progress'.data \in Amounts
      BY <1>3, <1>4, <2>3, FieldsOfProgress DEF ProgressInv, Datas
    <3>2. progress.data.val \in Nat /\ progress'.data.val \in Nat
      BY <3>1 DEF Amounts
    <3> QED
      BY <1>4, <2>1, <2>3, <3>2
  <2> QED
    BY <2>2, <2>3
<1>10. ParsedInv'
  <2>1. \A i \in Of(log, "stats") : i <= q => progress'.total # Nil
    <3>1. ASSUME NEW i \in Of(log, "stats"), i <= q
          PROVE  progress'.total # Nil
      <4>1. CASE i <= pos
        BY <1>4, <4>1 DEF IInv, ParsedInv
      <4>2. CASE i > pos
        BY <1>4, <1>7, <3>1, <4>2
      <4> QED
        BY <1>1, <1>6, <4>1, <4>2
    <3> QED
      BY <3>1
  <2>2. \A i \in Of(log, "progress") : i <= q =>
          progress'.total # Nil \/ (progress'.data # Nil /\ progress'.data.val > 0)
    <3>1. ASSUME NEW i \in Of(log, "progress"), i <= q
          PROVE  progress'.data # Nil \/ progress'.total # Nil
      <4>1. CASE i <= pos
        BY <1>4, <4>1 DEF IInv, ParsedInv
      <4>2. CASE i > pos
        BY <1>4, <1>7, <3>1, <4>2
      <4> QED
        BY <1>1, <1>6, <4>1, <4>2
    <3> QED
      BY <1>9, <3>1
  <2>3. \A i \in Of(log, "failed") : i <= q =>
          \E f \in progress'.failed : f.name = log[i].value.name
    <3>1. ASSUME NEW i \in Of(log, "failed"), i <= q
          PROVE  \E f \in progress'.failed : f.name = log[i].value.name
      <4>1. CASE i <= pos
        BY <1>4, <4>1 DEF IInv, ParsedInv
      <4>2. CASE i > pos
        BY <1>4, <1>7, <3>1, <4>2
      <4> QED
        BY <1>1, <1>6, <4>1, <4>2
    <3> QED
      BY <3>1
  <2> QED
    BY <1>6, <2>1, <2>2, <2>3 DEF ParsedInv
\* The retries of the chunk are retries of the log beyond pos.
<1>11. ASSUME First(chunk, "retry", Nil) # Nil
       PROVE  \E i \in Of(log, "retry") :
                i > pos /\ i <= q + 1 /\ First(chunk, "retry", Nil) = log[i].value
  <2>1. PICK k \in Of(chunk, "retry") : First(chunk, "retry", Nil) = chunk[k].value
    BY <1>2, <1>11, FirstIsIn
  <2>2. /\ k \in 1..Len(chunk) /\ pos + k \in Of(log, "retry") /\ pos + k <= q + 1
        /\ chunk[k] = log[pos + k]
    <3>1. k \in 1..Len(chunk) /\ chunk[k].kind = "retry"
      BY <1>2, OfLines
    <3>2. pos + k \in 1..Len(log) /\ pos + k <= q + 1 /\ log[pos + k].kind = "retry"
      BY <1>2, <3>1
    <3>3. chunk[k] = log[pos + k]
      BY <1>2, <3>1, <3>2
    <3> QED
      BY <1>1, <3>1, <3>2, <3>3 DEF Of
  <2>3. pos + k > pos
    BY <1>1, <1>2, <2>2
  <2> QED
    BY <2>1, <2>2, <2>3
<1>12. \A i \in Of(log, "retry") : log[i].value \in Nat /\ i \in Nat
  BY <1>1, <1>6, OfLines, ValueOfLine
<1>13. /\ \A i \in Of(log, "retry") : log[i].value <= Retries
       /\ \A i, j \in Of(log, "retry") : i <= j => log[i].value <= log[j].value
  BY DEF IInv, LogInv
<1>14. /\ progress.retries \in Nat \cup {Nil}
       /\ progress.retries # Nil =>
            /\ progress.retries <= Retries
            /\ \A i \in Of(log, "retry") : i > pos => log[i].value >= progress.retries
  BY <1>3, FieldsOfProgress DEF IInv, ProgressInv, ReadingInv, Tries
<1>15. /\ progress.retries # Nil => progress'.retries >= progress.retries
       /\ progress'.retries # Nil =>
            /\ progress'.retries <= Retries
            /\ \A i \in Of(log, "retry") : i > q => log[i].value >= progress'.retries
  <2>1. CASE First(chunk, "retry", Nil) = Nil
    <3>1. progress'.retries = progress.retries
      BY <1>4, <2>1
    <3> QED
      BY <1>1, <1>12, <1>14, <3>1
  <2>2. CASE First(chunk, "retry", Nil) # Nil
    <3>1. PICK i \in Of(log, "retry") : i > pos /\ i <= q + 1 /\ progress'.retries = log[i].value
      BY <1>4, <1>11, <2>2
    <3>2. \A j \in Of(log, "retry") : j > q => i <= j
      BY <1>1, <1>12, <3>1
    <3> QED
      BY <1>12, <1>13, <1>14, <3>1, <3>2
  <2> QED
    BY <2>1, <2>2
<1>16. rd' = "read" => ReadingInv'
  <2>1. Retries' = Retries
    BY DEF Retries, Of
  <2> QED
    BY <1>4, <1>6, <1>9, <1>15, <2>1 DEF ReadingInv
<1>17. Grown
  BY <1>4, <1>15 DEF Grown
<1> QED
  BY <1>4, <1>5, <1>10, <1>16, <1>17

\* Each of the goroutine's steps keeps the invariant and loses nothing.
LEMMA ReadLinesStep == ASSUME IInv, ReadLines PROVE IInv' /\ Grown
<1>1. pos \in 0..Len(log) /\ Len(log) \in Nat /\ pos' \in pos..Len(log) /\ cut' \in Nat /\ CutOK(pos', cut')
  <2>1. pos \in 0..Len(log) /\ Len(log) \in Nat
    BY DEF IInv, LogInv, PosInv
  <2>2. pos' \in pos..Len(log) /\ cut' \in 0..(IF pos' = Len(log) THEN 0 ELSE Len(Beginnings(log[pos' + 1])))
    BY DEF ReadLines
  <2>3. Len(Beginnings(log[pos' + 1])) \in 1..2
    BY BeginningsLen
  <2> QED
    BY <2>1, <2>2, <2>3 DEF CutOK
<1>2. rd = "read" /\ Parse(Chunk(pos, pos', cut'), Nil) /\ zeroBytes' = 0 /\ log' = log /\ rd' = rd
  BY DEF ReadLines, Chunk
<1>3. ProgressInv' /\ LogInv' /\ ParsedInv' /\ Grown /\ ReadingInv'
  BY <1>1, <1>2, RoundStep
<1>4. CutOK(pos, cut)'
  BY <1>1, <1>2 DEF CutOK
<1>5. PosInv'
  BY <1>1, <1>2, <1>4, ProgressAssumption DEF PosInv
<1> QED
  BY <1>3, <1>5 DEF IInv

\* Reading nothing parses what was kept again: a chunk without complete lines.
LEMMA ReadNothingStep == ASSUME IInv, ReadNothing PROVE IInv' /\ Grown
<1>1. pos \in 0..Len(log) /\ Len(log) \in Nat /\ cut \in Nat /\ CutOK(pos, cut) /\ log \in Seq(Lines)
  BY DEF IInv, LogInv, PosInv
<1>2. /\ rd = "read" /\ Parse(Beginning(pos, cut), Nil) /\ zeroBytes' = zeroBytes + 1
      /\ rd' = IF zeroBytes' > MaxZeroReads THEN "ended" ELSE "read"
      /\ log' = log /\ pos' = pos /\ cut' = cut
  BY DEF ReadNothing
<1>3. Chunk(pos, pos, cut) = Beginning(pos, cut)
  <2>1. SubSeq(log, pos + 1, pos) = <<>>
    BY <1>1
  <2>2. Beginning(pos, cut) \in Seq(Lines)
    <3>1. CASE cut = 0
      BY <3>1 DEF Beginning
    <3>2. CASE cut # 0
      <4>1. log[pos + 1] \in Lines /\ cut \in 1..Len(Beginnings(log[pos + 1]))
        BY <1>1, <3>2 DEF CutOK
      <4>2. Beginnings(log[pos + 1])[cut] \in Lines
        BY <4>1, BeginningsOfLine
      <4> QED
        BY <3>2, <4>2 DEF Beginning
    <3> QED
      BY <3>1, <3>2
  <2> QED
    BY <2>1, <2>2, ConcatEmptySeq DEF Chunk
<1>4. ProgressInv' /\ LogInv' /\ ParsedInv' /\ Grown /\ (rd' = "read" => ReadingInv')
  BY <1>1, <1>2, <1>3, RoundStep
<1>5. ReadingInv'
  BY <1>4 DEF ReadingInv
<1>6. CutOK(pos, cut)'
  BY <1>1, <1>2 DEF CutOK
<1>7. zeroBytes \in 0..MaxZeroReads
  BY <1>2, ProgressAssumption DEF IInv, PosInv
<1>8. PosInv'
  BY <1>1, <1>2, <1>6, <1>7, ProgressAssumption DEF PosInv
<1> QED
  BY <1>4, <1>5, <1>8 DEF IInv

\* The final logs may be any text: all that is needed is that they are lines.
LEMMA ReadEOFStep == ASSUME IInv, ReadEOF PROVE IInv' /\ Grown
<1>1. rd = "read" /\ rd' = "ended" /\ log' = log /\ pos' = pos /\ cut' = cut /\ zeroBytes' = zeroBytes
  BY DEF ReadEOF
<1>2. PICK code \in Codes, n \in 0..Len(FinalLogs) : Parse(SubSeq(FinalLogs, 1, n), code)
  BY DEF ReadEOF, Codes
<1>3. SubSeq(FinalLogs, 1, n) \in Seq(Lines)
  <2>1. log \in Seq(Lines) /\ Len(log) \in Nat
    BY DEF IInv, LogInv
  <2>2. PICK k \in Nat \ {0} : FinalLogs = SubSeq(log, k, Len(log))
    <3> DEFINE start == IF Len(log) > TailLines THEN Len(log) - TailLines + 1 ELSE 1
    <3>1. TailLines \in Nat
      BY ProgressAssumption
    <3>2. start \in Nat \ {0}
      BY <2>1, <3>1
    <3>3. FinalLogs = SubSeq(log, start, Len(log))
      BY DEF FinalLogs
    <3> HIDE DEF start
    <3> QED
      BY <3>2, <3>3
  <2>3. FinalLogs \in Seq(Lines)
    BY <2>1, <2>2
  <2> QED
    BY <2>3
<1>4. ProgressInv /\ progress.code = Nil
  BY <1>1 DEF IInv, ReadingInv
<1>5. /\ ProgressInv'
      /\ progress.pct # Nil => progress'.pct # Nil /\ progress'.pct >= progress.pct
      /\ progress'.files >= progress.files
      /\ progress.failed \subseteq progress'.failed
      /\ progress.total # Nil => progress'.total = progress.total
      /\ progress.data # Nil => progress'.data # Nil /\ progress'.data.val >= progress.data.val
  BY Zenon, <1>2, <1>3, <1>4, ParseGrows
<1>6. LogInv'
  BY Zenon, <1>1 DEF IInv, LogInv, Of, Retries
<1>7. PosInv'
  <2>1. CutOK(pos, cut)'
    BY <1>1 DEF IInv, PosInv, CutOK
  <2> QED
    BY <1>1, <2>1 DEF IInv, PosInv
<1>8. ReadingInv'
  BY <1>1 DEF ReadingInv
<1>9. Grown
  BY <1>1, <1>5 DEF Grown
<1>10. progress.data # Nil => progress.data.val \in Nat /\ progress'.data.val \in Nat
  <2>1. ASSUME progress.data # Nil
        PROVE  progress.data \in Amounts /\ progress'.data \in Amounts
    BY <1>4, <1>5, <2>1, FieldsOfProgress DEF ProgressInv, Datas
  <2> QED
    BY <2>1 DEF Amounts
<1>11. ParsedInv'
  <2>1. \A kind : Of(log', kind) = Of(log, kind)
    BY <1>1 DEF Of
  <2>2. ParsedInv
    BY DEF IInv
  <2> QED
    BY <1>1, <1>5, <1>10, <2>1, <2>2 DEF ParsedInv
<1> QED
  BY <1>5, <1>6, <1>7, <1>8, <1>11, <1>9 DEF IInv

\* The other steps do not touch the progress.
LEMMA OtherSteps ==
  ASSUME IInv, ReadFails \/ Finished \/ UNCHANGED vars
  PROVE  IInv' /\ progress' = progress
<1>1. /\ log' = log /\ pos' = pos /\ cut' = cut /\ zeroBytes' = zeroBytes
      /\ progress' = progress /\ past' = past /\ seen' = seen
      /\ rd' = rd \/ rd' = "ended"
  BY DEF ReadFails, Finished, vars
<1>2. ProgressInv' /\ LogInv' /\ ParsedInv'
  BY Zenon, <1>1 DEF IInv, ProgressInv, LogInv, ParsedInv, Of, Retries
<1>3. ReadingInv'
  <2>1. CASE rd' = rd
    BY Zenon, <1>1, <2>1 DEF IInv, ReadingInv, Of, Retries
  <2>2. CASE rd' = "ended"
    BY <2>2 DEF ReadingInv
  <2> QED
    BY <1>1, <2>1, <2>2
<1>4. PosInv'
  <2>1. CutOK(pos, cut)'
    BY <1>1 DEF IInv, PosInv, CutOK
  <2>2. CASE rd' = rd
    BY <1>1, <2>1, <2>2 DEF IInv, PosInv
  <2>3. CASE rd' = "ended"
    BY <1>1, <2>1, <2>3 DEF IInv, PosInv
  <2> QED
    BY <1>1, <2>2, <2>3
<1> QED
  BY <1>1, <1>2, <1>3, <1>4 DEF IInv

\* A step that leaves the progress alone loses nothing.
LEMMA Unchanged ==
  ASSUME IInv, progress' = progress
  PROVE  Grown
<1>1. progress \in Progresses
  BY DEF IInv, ProgressInv
<1>2. /\ progress.pct # Nil => progress.pct \in Nat
      /\ progress.files \in Nat
      /\ progress.retries # Nil => progress.retries \in Nat
  BY <1>1, FieldsOfProgress DEF Pcts, Tries
<1> QED
  BY <1>2 DEF Grown

\* Every step keeps the invariant and loses nothing.
LEMMA InvNext ==
  ASSUME IInv, [Next]_vars
  PROVE  IInv' /\ Grown
<1>1. CASE Rsync
  BY <1>1, RsyncStep, Unchanged
<1>2. CASE ReadLines
  BY <1>2, ReadLinesStep
<1>3. CASE ReadNothing
  BY <1>3, ReadNothingStep
<1>4. CASE ReadEOF
  BY <1>4, ReadEOFStep
<1>5. CASE ReadFails \/ Finished \/ UNCHANGED vars
  BY <1>5, OtherSteps, Unchanged
<1> QED
  BY <1>1, <1>2, <1>3, <1>4, <1>5 DEF Next

\* The invariant holds in every reachable state.
THEOREM Invariant == Spec => []IInv
BY InvInit, InvNext, PTL DEF Spec

-----------------------------------------------------------------------------
(* The theorems.                                                           *)

\* The percentage stays between 0 and 100 (progress.go:378), though every attempt adds its own to that
\* of the past attempts, and every other variable has its type.
THEOREM TypeCorrect == Spec => []TypeOK
<1>1. IInv => TypeOK
  <2> SUFFICES ASSUME IInv PROVE TypeOK
    OBVIOUS
  <2>1. ProgressInv /\ PosInv /\ progress \in Progresses
    BY DEF IInv, ProgressInv
  <2>2. /\ progress.pct \in 0..100 \cup {Nil} /\ progress.data \in Amounts \cup {Nil}
        /\ progress.total \in {TotalFiles, Nil} /\ progress.files \in Nat
        /\ progress.failed \subseteq [name : Names, text : {"cut", "whole"}]
        /\ progress.retries \in Nat \cup {Nil} /\ progress.code \in ExitCodes \cup {Nil}
    BY <2>1, FieldsOfProgress DEF Pcts, Datas, Totals, FileSets, Tries, Codes
  <2>3. past.pct \in 0..100 \cup {Nil} /\ past.data \in Amounts \cup {Nil}
    BY <2>1 DEF ProgressInv, Pcts, Datas
  <2>4. seen \subseteq Names
    BY <2>1, <2>2 DEF ProgressInv
  <2> QED
    BY <2>1, <2>2, <2>3, <2>4 DEF TypeOK, PosInv
<1> QED
  BY <1>1, Invariant, PTL

\* Nothing the progress has shown is taken back: neither a retry, which starts
\* rsync's own counting anew, nor the final logs make a number go back.
THEOREM NeverTakenBack == Spec => NeverBack
<1>1. IInv /\ [Next]_vars => Grown
  BY InvNext
<1>2. Grown => [/\ progress.pct # Nil => progress'.pct # Nil /\ progress'.pct >= progress.pct
                /\ progress'.files >= progress.files
                /\ progress.failed \subseteq progress'.failed
                /\ progress.total # Nil => progress'.total = progress.total
                /\ progress.retries # Nil /\ rd' = "read" => progress'.retries >= progress.retries]_vars
  BY DEF Grown
<1> QED
  BY <1>1, <1>2, Invariant, PTL DEF Spec, NeverBack

\* Every file that rsync failed on, as far as the log was parsed, is on the list,
\* and once (progress.go:478).
THEOREM FailedOnce == Spec => []FailedFilesOnce
<1>1. IInv => FailedFilesOnce
  BY DEF IInv, ProgressInv, ParsedInv, FailedFilesOnce
<1> QED
  BY <1>1, Invariant, PTL

\* The status is "Failed", and not "Partially failed", only if no parsed line of
\* any attempt says that something was moved (progress.go:331-341).
THEOREM FailedIsComplete == Spec => []FailedMeansNothingMoved
<1>1. ASSUME IInv, Status(progress) = "Failed", NEW i \in 1..pos, Moved(log[i])
      PROVE  FALSE
  <2>1. /\ progress.total = Nil
        /\ progress.data = Nil \/ progress.data.val = 0
    BY <1>1 DEF Status
  <2>2. i \in 1..Len(log) /\ i <= pos /\ log \in Seq(Lines) /\ pos \in Nat
    BY <1>1 DEF IInv, PosInv, LogInv
  <2>3. CASE log[i].kind \in {"stats", "progress"}
    BY <1>1, <2>1, <2>2, <2>3 DEF IInv, ParsedInv, Of
  <2>4. CASE log[i].kind = "count"
    <3>1. i - 1 \in Of(log, "stats")
      BY <1>1, <2>2, <2>4 DEF IInv, LogInv, Of
    <3> QED
      BY <1>1, <2>1, <2>2, <3>1 DEF IInv, ParsedInv
  <2> QED
    BY <1>1, <2>3, <2>4 DEF Moved
<1>2. IInv => FailedMeansNothingMoved
  BY <1>1 DEF FailedMeansNothingMoved
<1> QED
  BY <1>2, Invariant, PTL
=============================================================================
