----------------------------- MODULE ExportProofs -----------------------------
(***************************************************************************)
(* That an export is closed, complete on a quiet cluster, and accounts for *)
(* what it leaves out, for any API resources, objects, changes and         *)
(* failures.                                                               *)
(***************************************************************************)
EXTENDS Export, TLAPS

\* The API resources whose lists are used.
Used(i) == i \in DOMAIN APIs /\ Admitted(APIs[i]) /\ APIs[i].preferred

Failed(i) == \E k \in DOMAIN errors : errors[k] = i

\* What the first n lists should have given.
Expected(n) == {o \in live : \E i \in 1..n : Used(i) /\ ~Failed(i) /\ o \in GetObjects(APIs[i])}

Filtered(objects) == IF ClusterScopedRbac THEN FilterRbacResources(objects) ELSE objects

\* The run is past the lists, or has ended well.
Chosen == at \in {"write", "failures"} \/ result = "ok"

ListsInv ==
  /\ at # "idle" => result = "none"
  /\ at = "list" => Len(errors) < next /\ \A k \in DOMAIN errors : errors[k] < next
  /\ at = "filter" => next = Len(APIs) + 1
  /\ at \in {"list", "filter"} => resources = listed /\ exported = {} /\ errs = FALSE
  /\ at \notin {"list", "filter"} => exported \in {{}, Filtered(listed)}
  /\ ~ClusterScopedRbac => \A o \in listed : o.kind \notin ClusterScopeKinds
  /\ Chosen => exported = Filtered(listed)
  /\ stable /\ at \in {"list", "filter"} => listed = Expected(next - 1)
  /\ stable /\ Chosen => listed = Expected(Len(APIs))

WrittenInv ==
  /\ at = "write" => /\ resources \subseteq exported
                     /\ errs \/ \A o \in exported \ resources : files[o] = "whole"
  /\ at = "failures" /\ ~errs => /\ \A o \in exported : files[o] = "whole"
                                 /\ \A k \in DOMAIN errors : k < next =>
                                      failures[APIs[errors[k]].name] \in DOMAIN APIs
  /\ result = "ok" => /\ \A o \in exported : files[o] = "whole"
                      /\ \A k \in DOMAIN errors : failures[APIs[errors[k]].name] \in DOMAIN APIs

IInv == TypeOK /\ ListsInv /\ WrittenInv

\* The API resources by their numbers.
LEMMA APIsType ==
  /\ Len(APIs) \in Nat /\ DOMAIN APIs = 1..Len(APIs)
  /\ \A i \in DOMAIN APIs :
       APIs[i].namespaced \in BOOLEAN /\ APIs[i].preferred \in BOOLEAN /\ APIs[i].name \in ResourceNames
<1> DEFINE R == [kind : STRING, name : STRING, namespaced : BOOLEAN, preferred : BOOLEAN]
<1>1. APIs \in Seq(R)
  BY ExportAssumption
<1>2. ASSUME NEW i \in DOMAIN APIs
      PROVE  APIs[i].namespaced \in BOOLEAN /\ APIs[i].preferred \in BOOLEAN
  <2>1. APIs[i] \in R
    <3> HIDE DEF R
    <3> QED
      BY <1>1
  <2> QED
    BY <2>1
<1>3. Len(APIs) \in Nat /\ DOMAIN APIs = 1..Len(APIs)
  <2> HIDE DEF R
  <2> QED
    BY <1>1
<1>4. \A i \in DOMAIN APIs : APIs[i].name \in ResourceNames
  BY DEF ResourceNames
<1> QED
  BY <1>2, <1>3, <1>4

\* No failure is a number.
LEMMA NilType == Nil \notin Nat
BY Zenon, ExportAssumption

\* The filter leaves out, and adds nothing.
LEMMA FilteredSubset ==
  ASSUME NEW S
  PROVE  Filtered(S) \subseteq S
BY DEF Filtered, FilterRbacResources, FilteredClusterRoleBindings, OfKind

\* Before the first export.
LEMMA InvInit == Init => IInv
<1> SUFFICES ASSUME Init PROVE IInv
  OBVIOUS
<1>1. TypeOK
  <2>1. Nil \notin DOMAIN APIs
    BY APIsType, NilType
  <2>2. errors \in Seq(DOMAIN APIs) /\ Len(errors) <= Len(APIs)
    BY APIsType DEF Init
  <2>3. next \in 1..(Len(APIs) + 1)
    BY APIsType DEF Init
  <2>4. files \in [Objects -> {"none", "partial", "whole"}]
    BY DEF Init
  <2>5. failures \in [ResourceNames -> {Nil} \cup 0..Len(APIs)] /\ \A n \in ResourceNames : failures[n] = Nil
    BY DEF Init
  <2> QED
    BY <2>1, <2>2, <2>3, <2>4, <2>5 DEF Init, TypeOK
<1>2. ListsInv
  BY FilteredSubset DEF Init, ListsInv, Chosen
<1>3. WrittenInv
  BY DEF Init, WrittenInv
<1> QED
  BY <1>1, <1>2, <1>3 DEF IInv

\* Change: the history says that the cluster did not stand still.
LEMMA ChangeStep == ASSUME IInv, Change PROVE IInv'
<1>1. /\ live' \subseteq Objects /\ stable' = FALSE
      /\ at' = at /\ next' = next /\ resources' = resources /\ errors' = errors /\ errs' = errs
      /\ result' = result /\ files' = files /\ failures' = failures
      /\ listed' = listed /\ exported' = exported
  BY DEF Change, run, dirs, hist, IInv, TypeOK
<1>2. TypeOK'
  BY <1>1 DEF IInv, TypeOK
<1>3. ListsInv'
  BY <1>1 DEF IInv, ListsInv, Chosen
<1>4. WrittenInv'
  BY <1>1 DEF IInv, WrittenInv
<1> QED
  BY <1>2, <1>3, <1>4 DEF IInv

\* Start and StartFails: a run begins with empty lists.
LEMMA BeginStep == ASSUME IInv, Start \/ StartFails PROVE IInv'
<1>1. /\ live' = live /\ files' = files /\ failures' = failures
      /\ next' = 1 /\ resources' = {} /\ errors' = <<>> /\ errs' = FALSE
      /\ listed' = {} /\ exported' = {} /\ stable' = TRUE
      /\ \/ at' = "list" /\ result' = "none"
         \/ at' = "idle" /\ result' = "error"
  BY DEF Start, StartFails, Begin, dirs
<1>2. TypeOK'
  <2>1. errors' \in Seq(DOMAIN APIs) /\ Len(errors') <= Len(APIs) /\ next' \in 1..(Len(APIs) + 1)
    BY <1>1, APIsType
  <2> QED
    BY <1>1, <2>1 DEF IInv, TypeOK
<1>3. Expected(0)' = {}
  BY DEF Expected
<1>4. ListsInv'
  BY <1>1, <1>3, FilteredSubset DEF ListsInv, Chosen
<1>5. WrittenInv'
  BY <1>1 DEF WrittenInv
<1> QED
  BY <1>2, <1>4, <1>5 DEF IInv

\* What one more list should have given.
LEMMA ExpectedNext ==
  ASSUME NEW n \in Nat
  PROVE  Expected(n + 1) = Expected(n) \cup
           (IF Used(n + 1) /\ ~Failed(n + 1) THEN {o \in live : o \in GetObjects(APIs[n + 1])} ELSE {})
<1>1. 1..(n + 1) = 1..n \cup {n + 1}
  OBVIOUS
<1> QED
  BY <1>1 DEF Expected

LEMMA GetObjectsLive ==
  ASSUME NEW api
  PROVE  GetObjects(api) \subseteq live
BY DEF GetObjects, OfKind

\* The failures are numbers of API resources.
LEMMA ErrorsType ==
  ASSUME TypeOK
  PROVE  /\ Len(errors) \in Nat /\ DOMAIN errors = 1..Len(errors)
         /\ \A k \in DOMAIN errors : errors[k] \in 1..Len(APIs)
BY APIsType DEF TypeOK

\* A resource that is not admitted adds nothing to what is expected.
LEMMA SkipResourceStep == ASSUME IInv, SkipResource PROVE IInv'
<1>1. PICK i \in DOMAIN APIs : Listing(i) /\ ~Admitted(APIs[i])
  BY DEF SkipResource
<1>2. /\ live' = live /\ at' = at /\ resources' = resources /\ errors' = errors /\ errs' = errs
      /\ result' = result /\ files' = files /\ failures' = failures
      /\ listed' = listed /\ exported' = exported /\ stable' = stable
      /\ at = "list" /\ next = i /\ next' = next + 1 /\ i \in 1..Len(APIs) /\ ~Used(i)
  BY <1>1, APIsType DEF SkipResource, Listing, dirs, hist, Used
<1>3. TypeOK'
  BY <1>2, APIsType DEF IInv, TypeOK
<1>4. Expected(i)' = Expected(i - 1)
  <2>1. Expected(i)' = Expected(i)
    BY <1>2, Zenon DEF Expected, Used, Failed, GetObjects
  <2>2. i - 1 \in Nat /\ (i - 1) + 1 = i
    BY <1>2, APIsType
  <2> QED
    BY <1>2, <2>1, <2>2, ExpectedNext
<1>5. ListsInv'
  <2>1. Len(errors) < next' /\ \A k \in DOMAIN errors : errors[k] < next'
    BY <1>2, ErrorsType, APIsType DEF IInv, ListsInv
  <2>2. next' - 1 = i /\ ~Chosen /\ ~Chosen'
    BY <1>2, APIsType DEF IInv, ListsInv, Chosen
  <2>3. stable => listed = Expected(i - 1)
    BY <1>2 DEF IInv, ListsInv
  <2> QED
    BY <1>2, <1>4, <2>1, <2>2, <2>3 DEF IInv, ListsInv
<1>6. WrittenInv'
  BY <1>2 DEF IInv, WrittenInv, ListsInv
<1> QED
  BY <1>3, <1>5, <1>6 DEF IInv

\* A list adds what it should.
LEMMA ListResourceStep == ASSUME IInv, ListResource PROVE IInv'
<1>1. PICK i \in DOMAIN APIs :
        /\ Listing(i)
        /\ Admitted(APIs[i])
        /\ resources' = IF APIs[i].preferred THEN resources \cup GetObjects(APIs[i]) ELSE resources
  BY DEF ListResource
<1>2. /\ live' = live /\ at' = at /\ errors' = errors /\ errs' = errs
      /\ result' = result /\ files' = files /\ failures' = failures
      /\ listed' = resources' /\ exported' = exported /\ stable' = stable
      /\ at = "list" /\ next = i /\ next' = next + 1 /\ i \in 1..Len(APIs) /\ Admitted(APIs[i])
      /\ resources' = IF Used(i) THEN resources \cup GetObjects(APIs[i]) ELSE resources
  BY <1>1, APIsType DEF ListResource, Listing, dirs, Used
<1>3. TypeOK'
  <2>1. resources = listed /\ exported = {}
    BY <1>2 DEF IInv, ListsInv
  <2>2. resources' \subseteq Objects /\ next' \in 1..(Len(APIs) + 1)
    BY <1>2, <2>1, APIsType, GetObjectsLive DEF IInv, TypeOK
  <2> QED
    BY <1>2, <2>1, <2>2 DEF IInv, TypeOK
<1>4. ~Failed(i)
  BY <1>2, ErrorsType DEF IInv, ListsInv, Failed
<1>5. Expected(i)' = Expected(i - 1) \cup (IF Used(i) THEN GetObjects(APIs[i]) ELSE {})
  <2>1. Expected(i)' = Expected(i)
    BY <1>2, Zenon DEF Expected, Used, Failed, GetObjects
  <2>2. i - 1 \in Nat /\ (i - 1) + 1 = i
    BY <1>2, APIsType
  <2> QED
    BY <1>4, <2>1, <2>2, ExpectedNext, GetObjectsLive
<1>6. ListsInv'
  <2>1. Len(errors) < next' /\ \A k \in DOMAIN errors : errors[k] < next'
    BY <1>2, ErrorsType, APIsType DEF IInv, ListsInv
  <2>2. next' - 1 = i /\ ~Chosen /\ ~Chosen'
    BY <1>2, APIsType DEF IInv, ListsInv, Chosen
  <2>3. stable => listed = Expected(i - 1)
    BY <1>2 DEF IInv, ListsInv
  <2>4. ~ClusterScopedRbac => \A o \in GetObjects(APIs[i]) : o.kind \notin ClusterScopeKinds
    BY <1>2, ExportAssumption DEF Admitted, GetObjects, OfKind
  <2>5. ~ClusterScopedRbac => \A o \in resources : o.kind \notin ClusterScopeKinds
    BY <1>2 DEF IInv, ListsInv
  <2>6. stable' /\ at' \in {"list", "filter"} => listed' = Expected(next - 1)'
    BY <1>2, <1>5, <2>2, <2>3 DEF IInv, ListsInv
  <2> QED
    BY <1>2, <2>1, <2>2, <2>4, <2>5, <2>6 DEF IInv, ListsInv
<1>7. WrittenInv'
  BY <1>2 DEF IInv, WrittenInv, ListsInv
<1> QED
  BY <1>3, <1>6, <1>7 DEF IInv

\* A list that fails takes its resource from what is expected.
LEMMA ListFailsStep == ASSUME IInv, ListFails PROVE IInv'
<1>1. PICK i \in DOMAIN APIs :
        /\ Listing(i)
        /\ Admitted(APIs[i])
        /\ errors' = ErrorsWith(i)
  BY DEF ListFails
<1>2. /\ live' = live /\ at' = at /\ errors' = Append(errors, i) /\ errs' = errs
      /\ result' = result /\ files' = files /\ failures' = failures /\ resources' = resources
      /\ listed' = listed /\ exported' = exported /\ stable' = stable
      /\ at = "list" /\ next = i /\ next' = next + 1 /\ i \in 1..Len(APIs)
  BY <1>1, APIsType DEF ListFails, Listing, dirs, hist, ErrorsWith
<1>3. /\ Len(errors') = Len(errors) + 1 /\ DOMAIN errors' = DOMAIN errors \cup {Len(errors) + 1}
      /\ \A k \in DOMAIN errors : errors'[k] = errors[k]
      /\ errors'[Len(errors) + 1] = i
      /\ errors' \in Seq(DOMAIN APIs)
  BY <1>2, APIsType DEF IInv, TypeOK
<1>4. Len(errors) < next /\ \A k \in DOMAIN errors : errors[k] < next
  BY <1>2 DEF IInv, ListsInv
<1>5. TypeOK'
  <2>1. Len(errors') <= Len(APIs) /\ next' \in 1..(Len(APIs) + 1)
    BY <1>2, <1>3, <1>4, ErrorsType, APIsType DEF IInv
  <2> QED
    BY <1>2, <1>3, <2>1 DEF IInv, TypeOK
<1>6. Expected(i)' = Expected(i - 1)
  <2>1. \A j \in 1..(i - 1) : Failed(j)' <=> Failed(j)
    BY <1>2, <1>3, APIsType DEF Failed
  <2>2. Failed(i)'
    BY <1>3 DEF Failed
  <2>3. 1..i = 1..(i - 1) \cup {i}
    BY <1>2, APIsType
  <2> QED
    BY <1>2, <2>1, <2>2, <2>3 DEF Expected, Used, GetObjects
<1>7. ListsInv'
  <2>1. Len(errors') < next' /\ \A k \in DOMAIN errors' : errors'[k] < next'
    BY <1>2, <1>3, <1>4, ErrorsType, APIsType DEF IInv
  <2>2. next' - 1 = i /\ ~Chosen /\ ~Chosen'
    BY <1>2, APIsType DEF IInv, ListsInv, Chosen
  <2>3. stable => listed = Expected(i - 1)
    BY <1>2 DEF IInv, ListsInv
  <2> QED
    BY <1>2, <1>6, <2>1, <2>2, <2>3 DEF IInv, ListsInv
<1>8. WrittenInv'
  BY <1>2 DEF IInv, WrittenInv, ListsInv
<1> QED
  BY <1>5, <1>7, <1>8 DEF IInv

\* The last list.
LEMMA ListedStep == ASSUME IInv, Listed PROVE IInv'
<1>1. /\ live' = live /\ errors' = errors /\ errs' = errs /\ next' = next
      /\ result' = result /\ files' = files /\ failures' = failures /\ resources' = resources
      /\ listed' = listed /\ exported' = exported /\ stable' = stable
      /\ at = "list" /\ at' = "filter" /\ next > Len(APIs)
  BY DEF Listed, dirs, hist
<1>2. TypeOK'
  BY <1>1 DEF IInv, TypeOK
<1>3. ListsInv'
  <2>1. next = Len(APIs) + 1
    BY <1>1, APIsType DEF IInv, TypeOK
  <2>2. Expected(next - 1)' = Expected(next - 1)
    BY <1>1, Zenon DEF Expected, Used, Failed, GetObjects
  <2> QED
    BY <1>1, <2>1, <2>2 DEF IInv, ListsInv, Chosen
<1>4. WrittenInv'
  BY <1>1 DEF IInv, WrittenInv, ListsInv
<1> QED
  BY <1>2, <1>3, <1>4 DEF IInv

\* The filter chooses from what was listed.
LEMMA FilterStep == ASSUME IInv, Filter PROVE IInv'
<1>1. /\ live' = live /\ errors' = errors /\ errs' = errs /\ next' = next
      /\ result' = result /\ files' = files /\ failures' = failures
      /\ resources' = Filtered(resources) /\ exported' = resources'
      /\ listed' = listed /\ stable' = stable
      /\ at = "filter" /\ at' = "write"
  BY DEF Filter, dirs, Filtered
<1>2. resources = listed /\ result = "none" /\ next = Len(APIs) + 1
  BY <1>1 DEF IInv, ListsInv
<1>3. TypeOK'
  BY <1>1, <1>2, FilteredSubset DEF IInv, TypeOK
<1>4. ListsInv'
  <2>1. Expected(Len(APIs))' = Expected(Len(APIs))
    BY <1>1, Zenon DEF Expected, Used, Failed, GetObjects
  <2>2. stable => listed = Expected(Len(APIs))
    BY <1>1, <1>2, APIsType DEF IInv, ListsInv
  <2> QED
    BY <1>1, <1>2, <2>1, <2>2 DEF IInv, ListsInv, Chosen
<1>5. WrittenInv'
  BY <1>1, <1>2 DEF WrittenInv
<1> QED
  BY <1>3, <1>4, <1>5 DEF IInv

\* What writing leaves alone.
Choice == <<live, errors, result, listed, exported, stable>>

\* The lists and the choice stay as they are while files are written.
LEMMA WritingLists ==
  ASSUME IInv, UNCHANGED Choice, at' \in {"write", "failures"}, at \in {"write", "failures"}
  PROVE  ListsInv'
<1>1. /\ live' = live /\ errors' = errors /\ result' = result
      /\ listed' = listed /\ exported' = exported /\ stable' = stable
  BY DEF Choice
<1>2. Expected(Len(APIs))' = Expected(Len(APIs))
  BY <1>1, Zenon DEF Expected, Used, Failed, GetObjects
<1>3. Chosen /\ Chosen' /\ result = "none"
  BY DEF Chosen, IInv, ListsInv
<1> QED
  BY <1>1, <1>2, <1>3 DEF IInv, ListsInv

\* One file more is whole.
LEMMA WriteResourceStep == ASSUME IInv, WriteResource PROVE IInv'
<1>1. PICK o \in Objects :
        /\ NextObject(o)
        /\ files' = [files EXCEPT ![o] = "whole"]
        /\ resources' = resources \ {o}
  BY DEF WriteResource
<1>2. /\ UNCHANGED Choice /\ at' = at /\ errs' = errs /\ next' = next /\ failures' = failures
      /\ result' = result /\ exported' = exported /\ at = "write" /\ o \in resources
  BY <1>1 DEF WriteResource, Choice, hist, NextObject
<1>3. TypeOK'
  BY <1>1, <1>2 DEF IInv, TypeOK, Choice
<1>4. ListsInv'
  BY <1>2, WritingLists
<1>5. WrittenInv'
  BY <1>1, <1>2 DEF IInv, TypeOK, WrittenInv, ListsInv
<1> QED
  BY <1>3, <1>4, <1>5 DEF IInv

\* A file that is not written makes the run report an error.
LEMMA WriteResourceFailsStep == ASSUME IInv, WriteResourceFails PROVE IInv'
<1>1. PICK o \in Objects :
        /\ NextObject(o)
        /\ files' = files \/ files' = [files EXCEPT ![o] = "partial"]
        /\ resources' = resources \ {o}
  BY DEF WriteResourceFails
<1>2. /\ UNCHANGED Choice /\ at' = at /\ errs' = TRUE /\ next' = next /\ failures' = failures
      /\ result' = result /\ exported' = exported /\ at = "write" /\ o \in resources
  BY <1>1 DEF WriteResourceFails, Choice, hist, NextObject
<1>3. TypeOK'
  BY <1>1, <1>2 DEF IInv, TypeOK, Choice
<1>4. ListsInv'
  BY <1>2, WritingLists
<1>5. WrittenInv'
  BY <1>1, <1>2 DEF IInv, WrittenInv, ListsInv
<1> QED
  BY <1>3, <1>4, <1>5 DEF IInv

\* All files have been written, no failure has.
LEMMA WrittenStep == ASSUME IInv, Written PROVE IInv'
<1>1. /\ UNCHANGED Choice /\ at = "write" /\ at' = "failures" /\ next' = 1 /\ errs' = errs
      /\ resources = {} /\ resources' = {} /\ files' = files /\ failures' = failures
      /\ result' = result /\ exported' = exported /\ errors' = errors
  BY DEF Written, Choice, dirs, hist
<1>2. TypeOK'
  BY <1>1, APIsType DEF IInv, TypeOK, Choice
<1>3. ListsInv'
  BY <1>1, WritingLists
<1>4. WrittenInv'
  <2>1. \A k \in DOMAIN errors : ~(k < next')
    BY <1>1, ErrorsType DEF IInv
  <2> QED
    BY <1>1, <2>1 DEF IInv, WrittenInv, ListsInv
<1> QED
  BY <1>2, <1>3, <1>4 DEF IInv

\* The failure to write next is that of an API resource whose name has a file.
LEMMA NextError ==
  ASSUME TypeOK, next \in DOMAIN errors
  PROVE  /\ errors[next] \in DOMAIN APIs /\ APIs[errors[next]].name \in ResourceNames
         /\ next + 1 \in 1..(Len(APIs) + 1)
         /\ \A k \in DOMAIN errors : k < next + 1 <=> k < next \/ k = next
         /\ 0 \notin DOMAIN APIs
BY ErrorsType, APIsType DEF TypeOK

\* One failure more is told.
LEMMA WriteErrorStep == ASSUME IInv, WriteError PROVE IInv'
<1> DEFINE name == APIs[errors[next]].name
<1>1. /\ UNCHANGED Choice /\ at = "failures" /\ at' = at /\ next \in DOMAIN errors /\ next' = next + 1
      /\ failures' = [failures EXCEPT ![name] = errors[next]]
      /\ errs' = errs /\ resources' = resources /\ files' = files
      /\ result' = result /\ exported' = exported /\ errors' = errors /\ listed' = listed
  BY DEF WriteError, ErrorOf, Choice, hist
<1>2. /\ errors[next] \in DOMAIN APIs /\ name \in ResourceNames
      /\ next + 1 \in 1..(Len(APIs) + 1)
      /\ \A k \in DOMAIN errors : k < next + 1 <=> k < next \/ k = next
      /\ errors[next] \in 0..Len(APIs)
  BY <1>1, NextError, APIsType DEF IInv
<1>3. /\ \A n \in ResourceNames : failures'[n] = IF n = name THEN errors[next] ELSE failures[n]
      /\ failures' \in [ResourceNames -> {Nil} \cup 0..Len(APIs)]
  <2> HIDE DEF name
  <2> QED
    BY <1>1, <1>2 DEF IInv, TypeOK
<1>4. TypeOK'
  <2>1. \A n \in ResourceNames : failures'[n] \in DOMAIN APIs => APIs[failures'[n]].name = n
    BY <1>2, <1>3 DEF IInv, TypeOK
  <2> QED
    BY <1>1, <1>2, <1>3, <2>1 DEF IInv, TypeOK, Choice
<1>5. ListsInv'
  BY <1>1, WritingLists
<1>6. WrittenInv'
  <2>1. \A k \in DOMAIN errors : APIs[errors[k]].name \in ResourceNames
    BY ErrorsType, APIsType DEF IInv
  <2>2. ASSUME ~errs, NEW k \in DOMAIN errors, k < next + 1
        PROVE  failures'[APIs[errors[k]].name] \in DOMAIN APIs
    BY <1>1, <1>2, <1>3, <2>1, <2>2 DEF IInv, WrittenInv
  <2> QED
    BY <1>1, <2>2 DEF IInv, WrittenInv, ListsInv
<1> QED
  BY <1>4, <1>5, <1>6 DEF IInv

\* A file of failures/ that is cut short holds no error.
LEMMA CutFailureType ==
  ASSUME TypeOK, CutFailure, next \in DOMAIN errors
  PROVE  /\ failures' \in [ResourceNames -> {Nil} \cup 0..Len(APIs)]
         /\ \A n \in ResourceNames : failures'[n] \in DOMAIN APIs => APIs[failures'[n]].name = n
<1> DEFINE name == APIs[errors[next]].name
<1>1. failures' = [failures EXCEPT ![name] = 0] /\ name \in ResourceNames /\ 0 \notin DOMAIN APIs
  BY NextError DEF CutFailure
<1>2. 0 \in 0..Len(APIs)
  BY APIsType
<1> HIDE DEF name
<1> QED
  BY <1>1, <1>2 DEF TypeOK

\* A failure that is not told makes the run report an error.
LEMMA WriteErrorFailsStep == ASSUME IInv, WriteErrorFails PROVE IInv'
<1>1. /\ UNCHANGED Choice /\ at = "failures" /\ at' = at /\ next \in DOMAIN errors /\ next' = next + 1
      /\ failures' = failures \/ CutFailure
      /\ errs' = TRUE /\ resources' = resources /\ files' = files
      /\ result' = result /\ exported' = exported /\ errors' = errors /\ listed' = listed
  BY DEF WriteErrorFails, Choice, hist
<1>2. /\ failures' \in [ResourceNames -> {Nil} \cup 0..Len(APIs)]
      /\ \A n \in ResourceNames : failures'[n] \in DOMAIN APIs => APIs[failures'[n]].name = n
  BY <1>1, CutFailureType DEF IInv, TypeOK
<1>3. next' \in 1..(Len(APIs) + 1)
  BY <1>1, NextError DEF IInv
<1>4. TypeOK'
  BY <1>1, <1>2, <1>3 DEF IInv, TypeOK, Choice
<1>5. ListsInv'
  BY <1>1, WritingLists
<1>6. WrittenInv'
  BY <1>1 DEF IInv, WrittenInv, ListsInv
<1> QED
  BY <1>4, <1>5, <1>6 DEF IInv

\* Every failure has been told.
LEMMA EndStep == ASSUME IInv, End PROVE IInv'
<1>1. /\ live' = live /\ errors' = errors /\ errs' = errs /\ next' = next
      /\ files' = files /\ failures' = failures /\ resources' = resources
      /\ listed' = listed /\ exported' = exported /\ stable' = stable
      /\ at = "failures" /\ at' = "idle" /\ next > Len(errors)
      /\ result' = IF errs THEN "error" ELSE "ok"
  BY DEF End, dirs, hist
<1>2. TypeOK'
  BY <1>1 DEF IInv, TypeOK
<1>3. ListsInv'
  <2>1. Expected(Len(APIs))' = Expected(Len(APIs))
    BY <1>1, Zenon DEF Expected, Used, Failed, GetObjects
  <2> QED
    BY <1>1, <2>1 DEF IInv, ListsInv, Chosen
<1>4. WrittenInv'
  <2>1. \A k \in DOMAIN errors : k < next
    BY <1>1, ErrorsType DEF IInv, TypeOK
  <2> QED
    BY <1>1, <2>1 DEF IInv, WrittenInv
<1> QED
  BY <1>2, <1>3, <1>4 DEF IInv

\* Kill: no run has ended well.
LEMMA KillStep == ASSUME IInv, Kill PROVE IInv'
<1>1. /\ live' = live /\ errors' = errors /\ errs' = errs /\ next' = next /\ resources' = resources
      /\ listed' = listed /\ exported' = exported /\ stable' = stable
      /\ at # "idle" /\ at' = "idle" /\ result' = "killed"
      /\ \/ files' = files
         \/ \E o \in Objects : files' = [files EXCEPT ![o] = "partial"]
      /\ failures' = failures \/ (next \in DOMAIN errors /\ CutFailure)
  BY DEF Kill, dirs, hist
<1>2. /\ failures' \in [ResourceNames -> {Nil} \cup 0..Len(APIs)]
      /\ \A n \in ResourceNames : failures'[n] \in DOMAIN APIs => APIs[failures'[n]].name = n
  BY <1>1, CutFailureType DEF IInv, TypeOK
<1>3. files' \in [Objects -> {"none", "partial", "whole"}]
  BY <1>1 DEF IInv, TypeOK
<1>4. TypeOK'
  BY <1>1, <1>2, <1>3 DEF IInv, TypeOK
<1>5. ListsInv'
  BY <1>1 DEF IInv, ListsInv, Chosen
<1>6. WrittenInv'
  BY <1>1 DEF WrittenInv
<1> QED
  BY <1>4, <1>5, <1>6 DEF IInv

\* The inductive invariant holds in every state of every export.
THEOREM Invariant == Spec => []IInv
<1>1. ASSUME IInv, [Next]_vars
      PROVE  IInv'
  <2>1. CASE Start \/ StartFails
    BY <1>1, <2>1, BeginStep
  <2>2. CASE SkipResource
    BY <1>1, <2>2, SkipResourceStep
  <2>3. CASE ListResource
    BY <1>1, <2>3, ListResourceStep
  <2>4. CASE ListFails
    BY <1>1, <2>4, ListFailsStep
  <2>5. CASE Listed
    BY <1>1, <2>5, ListedStep
  <2>6. CASE Filter
    BY <1>1, <2>6, FilterStep
  <2>7. CASE WriteResource
    BY <1>1, <2>7, WriteResourceStep
  <2>8. CASE WriteResourceFails
    BY <1>1, <2>8, WriteResourceFailsStep
  <2>9. CASE Written
    BY <1>1, <2>9, WrittenStep
  <2>10. CASE WriteError
    BY <1>1, <2>10, WriteErrorStep
  <2>11. CASE WriteErrorFails
    BY <1>1, <2>11, WriteErrorFailsStep
  <2>12. CASE End
    BY <1>1, <2>12, EndStep
  <2>13. CASE Kill
    BY <1>1, <2>13, KillStep
  <2>14. CASE Change
    BY <1>1, <2>14, ChangeStep
  <2>15. CASE UNCHANGED vars
    <3>1. /\ live' = live /\ at' = at /\ next' = next /\ resources' = resources /\ errors' = errors
          /\ errs' = errs /\ result' = result /\ files' = files /\ failures' = failures
          /\ listed' = listed /\ exported' = exported /\ stable' = stable
      BY <2>15 DEF vars, run, dirs, hist
    <3> QED
      <4>1. \A n : Expected(n)' = Expected(n)
        BY <3>1, Zenon DEF Expected, Used, Failed, GetObjects
      <4>2. Expected(next - 1)' = Expected(next - 1) /\ Expected(Len(APIs))' = Expected(Len(APIs))
        BY <3>1, <4>1, Zenon DEF Expected, Used, Failed, GetObjects
      <4>3. TypeOK'
        BY <1>1, <3>1 DEF IInv, TypeOK
      <4>4. ListsInv'
        BY <1>1, <3>1, <4>2 DEF IInv, ListsInv, Chosen
      <4>5. WrittenInv'
        BY <1>1, <3>1 DEF IInv, WrittenInv
      <4> QED
        BY <4>3, <4>4, <4>5 DEF IInv
  <2> QED
    BY <1>1, <2>1, <2>2, <2>3, <2>4, <2>5, <2>6, <2>7, <2>8, <2>9, <2>10, <2>11, <2>12, <2>13,
       <2>14, <2>15 DEF Next, Run
<1> QED
  BY <1>1, InvInit, PTL DEF Spec

\* The type invariant: in particular, writeErrors leaves in a file of failures/ only
\* failures of resources of that name.
THEOREM TypeCorrect == Spec => []TypeOK
<1>1. IInv => TypeOK
  BY DEF IInv
<1> QED
  BY <1>1, Invariant, PTL

\* A subject that is a service account is known by its namespace and its name.
LEMMA SubjectIsAccount ==
  ASSUME NEW s \in Subject, s.kind = "ServiceAccount"
  PROVE  s = Account(s.ns, s.name)
BY DEF Subject, Account

\* What is left of a set of objects by the filter is closed.
LEMMA FilteredClosed ==
  ASSUME NEW S \in SUBSET Objects, NEW o \in FilterRbacResources(S)
  PROVE  /\ o.kind = "ClusterRoleBinding" => \E a \in FilterRbacResources(S) :
              a.kind = "ServiceAccount" /\ Account(a.ns, a.name) \in o.subjects
         /\ o.kind = "ClusterRole" => \E b \in FilterRbacResources(S) :
              b.kind = "ClusterRoleBinding" /\ b.role = Ref("ClusterRole", o.name)
         /\ o.kind = "SecurityContextConstraints" =>
              \/ \E b \in FilterRbacResources(S) :
                   /\ b.kind = "ClusterRoleBinding"
                   /\ b.role \in {Ref("SecurityContextConstraints", o.name),
                                  Ref("ClusterRole", SccSystemName(o))}
              \/ \E a \in FilterRbacResources(S) :
                   a.kind = "ServiceAccount" /\ Account(a.ns, a.name) \in o.users
<1>1. \A sa \in OfKind(S, "ServiceAccount") : sa \in FilterRbacResources(S) /\ sa.kind = "ServiceAccount"
  BY DEF FilterRbacResources, OfKind, ClusterScopeKinds
<1>2. \A b \in FilteredClusterRoleBindings(S) :
        b \in FilterRbacResources(S) /\ b.kind = "ClusterRoleBinding"
  BY DEF FilterRbacResources, FilteredClusterRoleBindings, OfKind
<1>3. \A r \in Subject : r.kind = "ServiceAccount" /\ AnyServiceAccountInNamespace(S, r) =>
        \E a \in FilterRbacResources(S) : a.kind = "ServiceAccount" /\ Account(a.ns, a.name) = r
  BY <1>1, SubjectIsAccount DEF AnyServiceAccountInNamespace
<1>4. o \in S /\ o \in Objects
  BY DEF FilterRbacResources, FilteredClusterRoleBindings, OfKind
<1>5. CASE o.kind = "ClusterRoleBinding"
  <2>1. AcceptClusterRoleBinding(S, o)
    BY <1>5 DEF FilterRbacResources, FilteredClusterRoleBindings, OfKind, ClusterScopeKinds
  <2>2. o.subjects \subseteq Subject
    BY <1>4, <1>5, ExportAssumption
  <2> QED
    BY <1>3, <1>5, <2>1, <2>2 DEF AcceptClusterRoleBinding
<1>6. CASE o.kind = "ClusterRole"
  <2>1. AcceptClusterRole(S, o)
    BY <1>6 DEF FilterRbacResources, FilteredClusterRoleBindings, OfKind, ClusterScopeKinds
  <2> QED
    BY <1>2, <1>6, <2>1 DEF AcceptClusterRole
<1>7. CASE o.kind = "SecurityContextConstraints"
  <2>1. AcceptSecurityContextConstraints(S, o)
    BY <1>7 DEF FilterRbacResources, FilteredClusterRoleBindings, OfKind, ClusterScopeKinds
  <2>2. \A u \in o.users : u \in Subject /\ u.kind = "ServiceAccount"
    BY <1>4, <1>7, ExportAssumption
  <2> QED
    BY <1>2, <1>3, <1>7, <2>1, <2>2 DEF AcceptSecurityContextConstraints
<1> QED
  BY <1>5, <1>6, <1>7

\* The export is closed: whatever resourceToExtract has listed, at whatever moments,
\* filterRbacResources leaves no binding, role or constraints without what they are for.
THEOREM Closed == Spec => []ExportIsClosed
<1>1. IInv => ExportIsClosed
  <2> SUFFICES ASSUME IInv
               PROVE  ExportIsClosed
    OBVIOUS
  <2>1. CASE exported = {}
    BY <2>1 DEF ExportIsClosed
  <2>2. CASE exported = Filtered(listed) /\ ClusterScopedRbac
    <3>1. exported = FilterRbacResources(listed) /\ listed \in SUBSET Objects
      BY <2>2 DEF Filtered, IInv, TypeOK
    <3> QED
      BY <3>1, FilteredClosed DEF ExportIsClosed
  <2>3. CASE exported = Filtered(listed) /\ ~ClusterScopedRbac
    BY <2>3 DEF Filtered, ExportIsClosed, IInv, ListsInv, ClusterScopeKinds
  <2> QED
    BY <2>1, <2>2, <2>3, ExportAssumption DEF IInv, ListsInv
<1> QED
  BY <1>1, Invariant, PTL

\* An export without an error has written whole all that it chose, and writeErrors has
\* told of every list that failed.
THEOREM Accounted == Spec => []OkIsAccounted
<1>1. IInv => OkIsAccounted
  <2> SUFFICES ASSUME IInv, result = "ok"
               PROVE  /\ \A o \in exported : files[o] = "whole"
                      /\ \A i \in DOMAIN APIs : Admitted(APIs[i]) /\ APIs[i].preferred /\ stable =>
                           \/ GetObjects(APIs[i]) \subseteq listed
                           \/ failures[APIs[i].name] \in DOMAIN APIs /\ \E k \in DOMAIN errors : errors[k] = i
    BY DEF OkIsAccounted
  <2>1. stable => listed = Expected(Len(APIs))
    BY DEF IInv, ListsInv, Chosen
  <2>2. ASSUME NEW i \in DOMAIN APIs, Admitted(APIs[i]), APIs[i].preferred, stable,
               ~(GetObjects(APIs[i]) \subseteq listed)
        PROVE  Failed(i)
    BY <2>1, <2>2, APIsType, GetObjectsLive DEF Expected, Used
  <2> QED
    BY <2>2 DEF IInv, WrittenInv, Failed
<1> QED
  BY <1>1, Invariant, PTL

\* What the lists should have given if none of them failed.
LEMMA QuietLists ==
  ASSUME IInv, result = "ok", stable, errors = <<>>
  PROVE  /\ exported = Filtered(listed) /\ listed \subseteq Served /\ Served \subseteq Objects
         /\ \A o \in Served : o.ns = Namespace => o \in listed /\ o.kind \notin ClusterScopeKinds
         /\ \A o \in listed : o.kind \notin ClusterScopeKinds => o.ns = Namespace
         /\ \A o \in Served : ClusterScopedRbac /\ o.kind \in ClusterScopeKinds => o \in listed
         /\ \A o \in listed : ~ClusterScopedRbac => o.kind \notin ClusterScopeKinds
<1>1. /\ exported = Filtered(listed) /\ listed = Expected(Len(APIs)) /\ live \subseteq Objects
      /\ \A o \in listed : ~ClusterScopedRbac => o.kind \notin ClusterScopeKinds
      /\ Served \subseteq live
  BY DEF IInv, TypeOK, ListsInv, Chosen, Served
<1>2. \A i : ~Failed(i)
  BY DEF Failed
<1>3. \A o \in Served : o \in listed <=>
        \E i \in DOMAIN APIs : /\ Admitted(APIs[i]) /\ APIs[i].preferred
                              /\ o.kind = APIs[i].kind /\ (APIs[i].namespaced => o.ns = Namespace)
  BY <1>1, <1>2, APIsType DEF Expected, Used, GetObjects, OfKind, Served
<1>4. ASSUME NEW o \in Served
      PROVE  /\ o.kind # "Event"
             /\ \E i \in DOMAIN APIs : APIs[i].preferred /\ APIs[i].kind = o.kind
             /\ \A i \in DOMAIN APIs : APIs[i].kind = o.kind => (APIs[i].namespaced <=> o.ns # "")
  BY <1>1, ExportAssumption DEF Served
<1>5. Namespace # "" /\ \A i \in DOMAIN APIs : APIs[i].kind \in ClusterScopeKinds => ~APIs[i].namespaced
  BY ExportAssumption
<1>6. listed \subseteq Served /\ Served \subseteq Objects
  BY <1>1, APIsType DEF Expected, Used, GetObjects, OfKind, Served
<1>7. ASSUME NEW o \in Served, o.ns = Namespace
      PROVE  o \in listed /\ o.kind \notin ClusterScopeKinds
  <2>1. PICK i \in DOMAIN APIs : APIs[i].preferred /\ APIs[i].kind = o.kind
    BY <1>4
  <2>2. APIs[i].namespaced
    BY <1>4, <1>5, <1>7, <2>1
  <2>3. Admitted(APIs[i])
    BY <1>4, <2>1, <2>2 DEF Admitted
  <2> QED
    BY <1>3, <1>5, <1>7, <2>1, <2>2, <2>3
<1>8. ASSUME NEW o \in listed, o.kind \notin ClusterScopeKinds
      PROVE  o.ns = Namespace
  BY <1>3, <1>6, <1>8 DEF Admitted
<1>9. ASSUME NEW o \in Served, ClusterScopedRbac, o.kind \in ClusterScopeKinds
      PROVE  o \in listed
  BY <1>3, <1>4, <1>5, <1>9 DEF Admitted
<1> QED
  BY <1>1, <1>6, <1>7, <1>8, <1>9

\* If no list failed and the cluster stood still, what resourceToExtract and
\* filterRbacResources choose is what the namespace holds and its accounts use.
THEOREM Complete == Spec => []QuietIsComplete
<1>1. IInv => QuietIsComplete
  <2> SUFFICES ASSUME IInv, result = "ok", stable, errors = <<>>
               PROVE  exported = {o \in Served : o.ns = Namespace}
                                 \cup (IF ClusterScopedRbac THEN InUse ELSE {})
    BY DEF QuietIsComplete
  <2>1. CASE ~ClusterScopedRbac
    BY <2>1, QuietLists DEF Filtered
  <2>2. CASE ClusterScopedRbac
    <3> DEFINE accounts == {o \in Served : o.kind = "ServiceAccount" /\ o.ns = Namespace}
               refs     == {Account(a.ns, a.name) : a \in accounts}
               bindings == {o \in Served : o.kind = "ClusterRoleBinding" /\ o.subjects \cap refs # {}}
               roles    == {b.role : b \in bindings}
               used     == {o \in Served : o.kind = "ClusterRole" /\ Ref("ClusterRole", o.name) \in roles}
               sccs     == {o \in Served : /\ o.kind = "SecurityContextConstraints"
                                         /\ \/ roles \cap {Ref("SecurityContextConstraints", o.name),
                                                           Ref("ClusterRole", SccSystemName(o))} # {}
                                            \/ o.users \cap refs # {}}
    <3>1. exported = FilterRbacResources(listed)
      BY <2>2, QuietLists DEF Filtered
    <3>2. InUse = bindings \cup used \cup sccs
      BY DEF InUse
    <3>3. OfKind(listed, "ServiceAccount") = accounts
      BY QuietLists DEF OfKind, ClusterScopeKinds
    <3>4. \A r \in Subject : r.kind = "ServiceAccount" =>
            (r \in refs <=> AnyServiceAccountInNamespace(listed, r))
      <4>1. \A r \in Subject : r.kind = "ServiceAccount" => r = Account(r.ns, r.name)
        BY SubjectIsAccount
      <4>2. \A r : AnyServiceAccountInNamespace(listed, r) <=> \E a \in accounts : a.name = r.name /\ a.ns = r.ns
        BY <3>3 DEF AnyServiceAccountInNamespace
      <4>3. \A a : Account(a.ns, a.name).ns = a.ns /\ Account(a.ns, a.name).name = a.name
        BY DEF Account
      <4> HIDE DEF accounts
      <4> QED
        BY <4>1, <4>2, <4>3
    <3>5. \A r \in refs : r.kind = "ServiceAccount"
      BY DEF Account
    <3>6. FilteredClusterRoleBindings(listed) = bindings
      <4>1. OfKind(listed, "ClusterRoleBinding") = {o \in Served : o.kind = "ClusterRoleBinding"}
        BY <2>2, QuietLists DEF OfKind, ClusterScopeKinds
      <4>2. \A o \in Served : o.kind = "ClusterRoleBinding" => o.subjects \subseteq Subject
        BY QuietLists, ExportAssumption
      <4> HIDE DEF refs
      <4> QED
        BY <3>4, <3>5, <4>1, <4>2 DEF FilteredClusterRoleBindings, AcceptClusterRoleBinding
    <3>7. {o \in OfKind(listed, "ClusterRole") : AcceptClusterRole(listed, o)} = used
      <4>1. OfKind(listed, "ClusterRole") = {o \in Served : o.kind = "ClusterRole"}
        BY <2>2, QuietLists DEF OfKind, ClusterScopeKinds
      <4> HIDE DEF bindings
      <4> QED
        BY <3>6, <4>1 DEF AcceptClusterRole
    <3>8. {o \in OfKind(listed, "SecurityContextConstraints") :
             AcceptSecurityContextConstraints(listed, o)} = sccs
      <4>1. OfKind(listed, "SecurityContextConstraints") = {o \in Served : o.kind = "SecurityContextConstraints"}
        BY <2>2, QuietLists DEF OfKind, ClusterScopeKinds
      <4>2. \A o \in Served : o.kind = "SecurityContextConstraints" =>
              \A u \in o.users : u \in Subject /\ u.kind = "ServiceAccount"
        BY QuietLists, ExportAssumption
      <4> HIDE DEF bindings, refs
      <4> QED
        BY <3>4, <3>6, <4>1, <4>2 DEF AcceptSecurityContextConstraints
    <3>9. {o \in listed : o.kind \notin ClusterScopeKinds} = {o \in Served : o.ns = Namespace}
      BY QuietLists
    <3> HIDE DEF bindings, used, sccs
    <3> QED
      BY <2>2, <3>1, <3>2, <3>6, <3>7, <3>8, <3>9 DEF FilterRbacResources
  <2> QED
    BY <2>1, <2>2
<1> QED
  BY <1>1, Invariant, PTL
=============================================================================
