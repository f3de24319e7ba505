-------------------------------- MODULE Export --------------------------------
(***************************************************************************)
(* kubectl migrate export: the API resources are listed one after the      *)
(* other while the cluster goes on changing; what was listed is filtered   *)
(* and written, one file for an object; a resource that could not be       *)
(* listed gets a file of its own under failures/.  Nothing is removed, and *)
(* the directory is used again by the next export.                         *)
(*                                                                         *)
(* live are the objects that match the label selector.                     *)
(***************************************************************************)
EXTENDS ClusterRbac, Naturals, FiniteSets

CONSTANTS APIs,               \* the API resources, in the order of discovery
          Objects,            \* the objects there may be
          Namespace,          \* o.userSpecifiedNamespace
          ClusterScopedRbac,  \* o.clusterScopedRbac
          Nil,
          MaxChanges, MaxFaults  \* bounds: changes of the cluster, failures

ASSUME ExportAssumption ==
  /\ APIs \in Seq([kind : STRING, name : STRING, namespaced : BOOLEAN, preferred : BOOLEAN])
  /\ ClusterScopedRbac \in BOOLEAN
  /\ Namespace # ""
  /\ Nil \notin Nat
  /\ \A i \in DOMAIN APIs : APIs[i].kind \in ClusterScopeKinds => ~APIs[i].namespaced
  \* An object has a namespace if its kind has.
  /\ \A o \in Objects :
       /\ o.kind # "Event"
       /\ \A i \in DOMAIN APIs : APIs[i].kind = o.kind => (APIs[i].namespaced <=> o.ns # "")
       /\ o.kind = "ClusterRoleBinding" => o.subjects \subseteq Subject
       /\ o.kind = "SecurityContextConstraints" =>
            \A u \in o.users : u \in Subject /\ u.kind = "ServiceAccount"

VARIABLES live,      \* the objects on the cluster
          at,        \* "idle", "list", "filter", "write" or "failures"
          next,      \* the API resource to list next, or the failure to write next
          resources, \* the objects that were listed, then those still to be written
          errors,    \* the API resources that could not be listed, in order
          errs,      \* whether a file could not be written
          result,    \* how the last run ended
          files,     \* the file of each object: "none", "partial" or "whole"
          failures,  \* the file of each resource name: whose error it holds, 0 if none
          listed, exported, stable,  \* history: this run's objects before and after
                                     \* the filter, and whether the cluster stood still
          changes, faults            \* counted for the bounds

run  == <<at, next, resources, errors, errs, result>>
dirs == <<files, failures>>
hist == <<listed, exported>>
vars == <<live, run, dirs, hist, stable, changes, faults>>

ResourceNames == {APIs[i].name : i \in DOMAIN APIs}

Init ==
  /\ live \in SUBSET Objects
  /\ at = "idle" /\ next = 1 /\ resources = {} /\ errors = <<>> /\ errs = FALSE /\ result = "none"
  /\ files = [o \in Objects |-> "none"]
  /\ failures = [n \in ResourceNames |-> Nil]
  /\ listed = {} /\ exported = {} /\ stable = TRUE
  /\ changes = 0 /\ faults = 0

\* An object is created or deleted on the cluster.
Change ==
  /\ changes < MaxChanges
  /\ \E o \in Objects : live' = IF o \in live THEN live \ {o} ELSE live \cup {o}
  /\ changes' = changes + 1
  /\ stable' = FALSE
  /\ UNCHANGED <<run, dirs, hist, faults>>

Fault == faults < MaxFaults /\ faults' = faults + 1

-----------------------------------------------------------------------------
(* Run                                                                     *)

\* The process begins: of the run before only the directories are left.
Begin ==
  /\ at = "idle"
  /\ next' = 1 /\ resources' = {} /\ errors' = <<>> /\ errs' = FALSE
  /\ listed' = {} /\ exported' = {} /\ stable' = TRUE
  /\ UNCHANGED <<live, dirs, changes>>

Start == Begin /\ at' = "list" /\ result' = "none" /\ UNCHANGED faults

\* Neither a directory nor a client can be made, or discovery fails.
StartFails == Begin /\ Fault /\ at' = "idle" /\ result' = "error"

\* isAdmittedResource, and no events.
Admitted(api) ==
  /\ api.kind # "Event"
  /\ api.namespaced \/ (ClusterScopedRbac /\ api.kind \in ClusterScopeKinds)

\* Variant: every resource is listed in the namespace.
GetObjectsOfNamespace(api) == {o \in OfKind(live, api.kind) : o.ns = Namespace}

GetObjects(api) == {o \in OfKind(live, api.kind) : api.namespaced => o.ns = Namespace}

Listing(i) == at = "list" /\ next = i /\ i \in DOMAIN APIs /\ next' = next + 1

SkipResource ==
  \E i \in DOMAIN APIs :
    /\ Listing(i)
    /\ ~Admitted(APIs[i])
    /\ UNCHANGED <<live, at, resources, errors, errs, result, dirs, hist, stable, changes, faults>>

\* A version that is not preferred is listed, and what it holds is not used.
ListResource ==
  \E i \in DOMAIN APIs :
    /\ Listing(i)
    /\ Admitted(APIs[i])
    /\ resources' = IF APIs[i].preferred THEN resources \cup GetObjects(APIs[i]) ELSE resources
    /\ listed' = resources'
    /\ UNCHANGED <<live, at, errors, errs, result, dirs, exported, stable, changes, faults>>

\* Variant: an error is logged, and that is all.
ErrorsKept(i) == errors

ErrorsWith(i) == Append(errors, i)

\* The list, or the get of one of its items, fails.
ListFails ==
  \E i \in DOMAIN APIs :
    /\ Listing(i)
    /\ Admitted(APIs[i])
    /\ Fault
    /\ errors' = ErrorsWith(i)
    /\ UNCHANGED <<live, at, resources, errs, result, dirs, hist, stable, changes>>

Listed ==
  /\ at = "list" /\ next > Len(APIs)
  /\ at' = "filter"
  /\ UNCHANGED <<live, next, resources, errors, errs, result, dirs, hist, stable, changes, faults>>

Filter ==
  /\ at = "filter"
  /\ resources' = IF ClusterScopedRbac THEN FilterRbacResources(resources) ELSE resources
  /\ exported' = resources'
  /\ at' = "write"
  /\ UNCHANGED <<live, next, errors, errs, result, dirs, listed, stable, changes, faults>>

\* The lists are written in their order, those of cluster-scoped objects last.
Position(o) ==
  IF o.kind \in ClusterScopeKinds
    THEN Len(APIs) + CHOOSE k \in 1..3 : AdmittedClusterScopeResources[k] = o.kind
    ELSE CHOOSE i \in DOMAIN APIs : APIs[i].preferred /\ APIs[i].kind = o.kind

NextObject(o) ==
  at = "write" /\ o \in resources /\ \A p \in resources : Position(o) <= Position(p)

WriteResource ==
  \E o \in Objects :
    /\ NextObject(o)
    /\ files' = [files EXCEPT ![o] = "whole"]
    /\ resources' = resources \ {o}
    /\ UNCHANGED <<live, at, next, errors, errs, result, failures, hist, stable, changes, faults>>

\* The file cannot be created, or not be written; the others are.
WriteResourceFails ==
  \E o \in Objects :
    /\ NextObject(o)
    /\ Fault
    /\ \/ files' = files
       \/ files' = [files EXCEPT ![o] = "partial"]
    /\ errs' = TRUE
    /\ resources' = resources \ {o}
    /\ UNCHANGED <<live, at, next, errors, result, failures, hist, stable, changes>>

Written ==
  /\ at = "write" /\ resources = {}
  /\ at' = "failures" /\ next' = 1
  /\ UNCHANGED <<live, resources, errors, errs, result, dirs, hist, stable, changes, faults>>

\* Variant: the number of the error is taken for that of the resource.
ErrorAt(k) == k

ErrorOf(k) == errors[k]

\* The file is named after the resource, without its group.
WriteError ==
  /\ at = "failures" /\ next \in DOMAIN errors
  /\ failures' = [failures EXCEPT ![APIs[errors[next]].name] = ErrorOf(next)]
  /\ next' = next + 1
  /\ UNCHANGED <<live, at, resources, errors, errs, result, files, hist, stable, changes, faults>>

CutFailure == failures' = [failures EXCEPT ![APIs[errors[next]].name] = 0]

WriteErrorFails ==
  /\ at = "failures" /\ next \in DOMAIN errors
  /\ Fault
  /\ \/ failures' = failures
     \/ CutFailure
  /\ errs' = TRUE
  /\ next' = next + 1
  /\ UNCHANGED <<live, at, resources, errors, result, files, hist, stable, changes>>

\* Lists that failed are no error of the run.
End ==
  /\ at = "failures" /\ next > Len(errors)
  /\ at' = "idle"
  /\ result' = IF errs THEN "error" ELSE "ok"
  /\ UNCHANGED <<live, next, resources, errors, errs, dirs, hist, stable, changes, faults>>

\* The process is killed; the file it is writing stays as it is.
Kill ==
  /\ at # "idle"
  /\ Fault
  /\ at' = "idle" /\ result' = "killed"
  /\ \/ UNCHANGED dirs
     \/ /\ \E o \in Objects : NextObject(o) /\ files' = [files EXCEPT ![o] = "partial"]
        /\ UNCHANGED failures
     \/ at = "failures" /\ next \in DOMAIN errors /\ CutFailure /\ UNCHANGED files
  /\ UNCHANGED <<live, next, resources, errors, errs, hist, stable, changes>>

Run == \/ Start \/ StartFails \/ SkipResource \/ ListResource \/ ListFails \/ Listed \/ Filter
       \/ WriteResource \/ WriteResourceFails \/ Written \/ WriteError \/ WriteErrorFails \/ End

Next == Run \/ Kill \/ Change

Spec == Init /\ [][Next]_vars

-----------------------------------------------------------------------------
(* Properties.                                                             *)

TypeOK ==
  /\ live \subseteq Objects
  /\ at \in {"idle", "list", "filter", "write", "failures"}
  /\ next \in 1..(Len(APIs) + 1)
  /\ resources \subseteq exported \cup listed
  /\ errors \in Seq(DOMAIN APIs) /\ Len(errors) <= Len(APIs)
  /\ errs \in BOOLEAN
  /\ result \in {"none", "ok", "error", "killed"}
  /\ files \in [Objects -> {"none", "partial", "whole"}]
  /\ failures \in [ResourceNames -> {Nil} \cup 0..Len(APIs)]
  /\ \A n \in ResourceNames : failures[n] \in DOMAIN APIs => APIs[failures[n]].name = n
  /\ exported \subseteq listed /\ listed \subseteq Objects
  /\ stable \in BOOLEAN

\* What is exported belongs together, although every kind was listed at another
\* moment of a changing cluster, or not at all: a binding comes with a service
\* account of its subjects, a role with a binding to it, security context constraints with
\* a binding or an account that may use them.
ExportIsClosed ==
  \A o \in exported :
    /\ o.kind = "ClusterRoleBinding" => \E a \in exported :
         a.kind = "ServiceAccount" /\ Account(a.ns, a.name) \in o.subjects
    /\ o.kind = "ClusterRole" => \E b \in exported :
         b.kind = "ClusterRoleBinding" /\ b.role = Ref("ClusterRole", o.name)
    /\ o.kind = "SecurityContextConstraints" =>
         \/ \E b \in exported :
              /\ b.kind = "ClusterRoleBinding"
              /\ b.role \in {Ref("SecurityContextConstraints", o.name), Ref("ClusterRole", SccSystemName(o))}
         \/ \E a \in exported : a.kind = "ServiceAccount" /\ Account(a.ns, a.name) \in o.users

\* An export that reports no error has told of every resource, of a version that is
\* preferred, that it could not list, by a file under the resource's name, and has
\* written whole every object it meant to, over whatever an earlier run has left
\* half-written.
OkIsAccounted ==
  result = "ok" =>
    /\ \A o \in exported : files[o] = "whole"
    /\ \A i \in DOMAIN APIs : Admitted(APIs[i]) /\ APIs[i].preferred /\ stable =>
         \/ GetObjects(APIs[i]) \subseteq listed
         \/ failures[APIs[i].name] \in DOMAIN APIs /\ \E k \in DOMAIN errors : errors[k] = i

\* The objects of the kinds that the preferred versions serve.
Served == {o \in live : \E i \in DOMAIN APIs : APIs[i].preferred /\ APIs[i].kind = o.kind}

\* Of these, what the service accounts of the namespace use on the cluster.
InUse ==
  LET accounts == {o \in Served : o.kind = "ServiceAccount" /\ o.ns = Namespace}
      refs     == {Account(a.ns, a.name) : a \in accounts}
      bindings == {o \in Served : o.kind = "ClusterRoleBinding" /\ o.subjects \cap refs # {}}
      roles    == {b.role : b \in bindings}
  IN  bindings
      \cup {o \in Served : o.kind = "ClusterRole" /\ Ref("ClusterRole", o.name) \in roles}
      \cup {o \in Served : /\ o.kind = "SecurityContextConstraints"
                           /\ \/ roles \cap {Ref("SecurityContextConstraints", o.name),
                                             Ref("ClusterRole", SccSystemName(o))} # {}
                              \/ o.users \cap refs # {}}

\* If the cluster stood still and every list succeeded, an export that reports no
\* error has chosen exactly the objects of the namespace and what they use, of the
\* kinds that the preferred versions serve.
QuietIsComplete ==
  result = "ok" /\ stable /\ errors = <<>> =>
    exported = {o \in Served : o.ns = Namespace} \cup (IF ClusterScopedRbac THEN InUse ELSE {})

\* "Export discovers and exports all resources from a specified namespace."
\* (README.md:126): the objects of the namespace are exported if the cluster stood
\* still, every list succeeded and no error is reported, whichever version of the
\* API serves them.
ExportsAllResources ==
  result = "ok" /\ stable /\ errors = <<>> => {o \in live : o.ns = Namespace} \subseteq exported

=============================================================================
