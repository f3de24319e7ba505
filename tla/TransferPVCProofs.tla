-------------------------- MODULE TransferPVCProofs --------------------------
(***************************************************************************)
(* Proofs about TransferPVC: for any number of invocations between any     *)
(* namespaces, of claims of any names, that fail anywhere and are started  *)
(* again any number of times, with any functions from endpoints to hosts.  *)
(***************************************************************************)
EXTENDS TransferPVC, TLAPS

\* The objects an invocation may create, besides those of the model.
CertSecret(t, c) == OnDest(t, "secret", <<Target[t], c>>)
Copy(t, c)       == CopyOf(t, CertSecret(t, c))
ClientPod(t, a)  == OnSource(t, "pod", <<Source[t], t, a>>)
ClientSecret(t)  == OnSource(t, "secret", <<Source[t], "rsync-client">>)
Listable         == Certs \cup {"rsync-server"}

Made(o, t) ==
  \/ o = Claim(t)
  \/ o \in Endpoint(t)
  \/ o \in Stunnel(t)
  \/ o \in Server(t)
  \/ o \in ClientEnd(t)
  \/ \E a \in Nat : o = ClientPod(t, a)
  \/ o = ClientSecret(t)

\* The list of one finds what is of the other.
Namesake(u, t) == ToNs[u] = ToNs[t] /\ Source[u] = Source[t]

IsOf(o, t) ==
  \/ Made(o, t)
  \/ \E u \in Transfers, c \in Listable :
       Namesake(u, t) /\ o = CopyOf(t, CertSecret(u, c))

Own(t)     == {o \in objects : o.by = t}
OwnPods(t) == {o \in Own(t) : o.cluster = "source" /\ o.kind = "pod"}

\* Where an invocation stands when it has done what a step does.
AfterServer    == {"waitServer", "rsyncClient", "follow"}
AfterClientEnd == AfterServer \cup {"rsyncServer"}
AfterCopies    == AfterClientEnd \cup {"stunnelClient"}
AfterStunnel   == AfterCopies \cup {"listSecrets", "copySecrets"}
AfterEndpoint  == AfterStunnel \cup {"waitEndpoint", "stunnelServer"}
AfterClaim     == AfterEndpoint \cup {"createEndpoint", "gc", "done"}

-----------------------------------------------------------------------------
(* The inductive invariant.  Its types are of all invocations; the rest is *)
(* said of each that is told apart, by itself, and of the objects it has   *)
(* created.                                                                *)

Sorts ==
  /\ \E c \in Cases : most = c.most /\ host = c.host
  /\ admitted \subseteq Transfers
  /\ password \in [Transfers -> Transfers \X Nat]
  /\ pc \in [Transfers -> Steps]
  /\ DOMAIN toCopy = Transfers
  /\ gcAt \in [Transfers -> 1..Len(GCSteps)]
  /\ attempts \in [Transfers -> Nat]
  /\ copied \in [Transfers -> Nat]
  /\ followed \subseteq Transfers

\* What there is, and what has been listed, is of the known forms.
AllShaped == \A o \in objects : o.by \in Transfers /\ IsOf(o, o.by)
AllListed ==
  \A t \in Transfers : \A s \in toCopy[t] :
    \E u \in Transfers, c \in Listable : Namesake(u, t) /\ s = CertSecret(u, c)

Types == Sorts /\ AllShaped /\ AllListed

\* What it has set up stays until it collects it itself.
Placed(t) ==
  /\ pc[t] \in AfterClaim => Claim(t) \in Own(t)
  /\ pc[t] \in AfterEndpoint => Endpoint(t) \subseteq Own(t)
  /\ pc[t] \in AfterStunnel => Stunnel(t) \subseteq Own(t)
  /\ pc[t] \in AfterCopies => \A c \in Certs : Copy(t, c) \in Own(t)
  /\ pc[t] \in AfterClientEnd => ClientEnd(t) \subseteq Own(t)
  /\ pc[t] \in AfterServer => Server(t) \subseteq Own(t)
  /\ pc[t] = "copySecrets" =>
       \A c \in Certs : CertSecret(t, c) \in toCopy[t] \/ Copy(t, c) \in Own(t)

\* An attempt has left a client pod, or a server pod and no follow to the end.
LeftPods(t) == OwnPods(t) # {} \/ (t \notin followed /\ ServerPod(t) \in Own(t))

\* An attempt has got past the secrets, and they have not been collected since.
Past(t) == LeftPods(t) \/ (t \notin followed /\ copied[t] > 0)

\* Then all certificates are on the source cluster, and whoever has listed them
\* to copy them has all of them still to copy.
Barred(t) ==
  Past(t) =>
    /\ \A c \in Certs : Copy(t, c) \in Own(t)
    /\ pc[t] = "copySecrets" => \A c \in Certs : CertSecret(t, c) \in toCopy[t]

\* So who has got past the secrets meets no pods but its own.
Alone(t) ==
  /\ pc[t] \in {"stunnelClient", "rsyncServer"} => ~LeftPods(t)
  /\ pc[t] \in {"waitServer", "rsyncClient"} => OwnPods(t) = {}
  /\ pc[t] = "follow" => OwnPods(t) = {ClientPod(t, attempts[t])}
  /\ pc[t] \in AfterServer /\ t \notin followed => password[t] = <<t, attempts[t]>>
  /\ t \notin followed => copied[t] <= 1

Counted(t) ==
  /\ copied[t] <= attempts[t]
  /\ pc[t] \in AfterEndpoint \cup {"createPVC", "createEndpoint"} => gcAt[t] = 1
  /\ pc[t] \in (AfterEndpoint \ AfterCopies) \cup {"createPVC", "createEndpoint"} =>
       copied[t] < attempts[t]

\* garbageCollect has dealt with the kinds of its calls so far.
Gone(t, i) == \A o \in Own(t) : ~(o.cluster = GCSteps[i][1] /\ o.kind = GCSteps[i][2])
Cleaned(t) ==
  /\ pc[t] \in {"gc", "done"} => t \in followed
  /\ pc[t] = "gc" => \A i \in 1..Len(GCSteps) : i < gcAt[t] => Gone(t, i)
  /\ pc[t] = "done" => \A i \in 1..Len(GCSteps) : Gone(t, i)

OfOne(t) == Placed(t) /\ Barred(t) /\ Alone(t) /\ Counted(t) /\ Cleaned(t)
IInv == Types /\ \A t \in Transfers : Apart(t) => OfOne(t)

-----------------------------------------------------------------------------
(* The objects.                                                            *)

NsOf(cluster, t) == IF cluster = "source" THEN FromNs[t] ELSE ToNs[t]
LabelOf(kind, t) == IF kind = "pvc" THEN "none" ELSE Source[t]

LEMMA ClaimForm ==
  ASSUME NEW t
  PROVE  Claim(t) = Object("dest", ToNs[t], "pvc", <<Target[t]>>, "none", t)
BY DEF Claim, OnDest, Object

LEMMA CopyForm ==
  ASSUME NEW t, NEW u, NEW c
  PROVE  CopyOf(t, CertSecret(u, c))
           = Object("source", FromNs[t], "secret", <<Target[u], c>>, Source[u], t)
BY DEF CopyOf, CertSecret, OnDest, Object

LEMMA ObjectFields ==
  ASSUME NEW cluster, NEW ns, NEW kind, NEW name, NEW label, NEW by,
         NEW o, o = Object(cluster, ns, kind, name, label, by)
  PROVE  /\ o.cluster = cluster /\ o.ns = ns /\ o.kind = kind
         /\ o.name = name /\ o.label = label /\ o.by = by
BY DEF Object

\* The cases of what an invocation may create, by its fields.
MadeForm(o, t) ==
  \/ o.cluster = "dest" /\ o.kind = "pvc" /\ o.name = <<Target[t]>>
  \/ o.cluster = "dest" /\ o.kind = "endpoint" /\ o.name = <<Target[t]>>
  \/ o.cluster = "dest" /\ o.kind = "service" /\ o.name = <<Target[t]>>
  \/ o.cluster = "dest" /\ o.kind = "config" /\ o.name = <<Target[t]>>
  \/ o.cluster = "dest" /\ o.kind = "pod" /\ o.name = <<Target[t]>>
  \/ o.cluster = "dest" /\ o.kind = "secret" /\ \E c \in Listable : o.name = <<Target[t], c>>
  \/ o.cluster = "source" /\ o.kind = "config" /\ o.name = <<Source[t]>>
  \/ o.cluster = "source" /\ o.kind = "pod"
       /\ \E a \in Nat : o.name = <<Source[t], t, a>>
  \/ o.cluster = "source" /\ o.kind = "secret" /\ o.name = <<Source[t], "rsync-client">>

FormOf(o, t) == o = Object(o.cluster, NsOf(o.cluster, t), o.kind, o.name, LabelOf(o.kind, t), t)

LEMMA MadeHasForm ==
  ASSUME NEW t, NEW o, Made(o, t)
  PROVE  FormOf(o, t) /\ MadeForm(o, t)
<1>1. CASE o = Claim(t)
  <2>1. o.cluster = "dest" /\ o.kind = "pvc" /\ o.name = <<Target[t]>>
    BY <1>1, ClaimForm DEF Object
  <2> QED
    BY <1>1, <2>1, ClaimForm DEF FormOf, MadeForm, NsOf, LabelOf
<1>2. CASE o \in Endpoint(t)
  BY <1>2, ObjectFields DEF Endpoint, Route, OnDest, FormOf, MadeForm, NsOf, LabelOf
<1>3. CASE o \in Stunnel(t)
  <2>1. CASE o = OnDest(t, "config", <<Target[t]>>)
    BY <2>1, ObjectFields DEF OnDest, FormOf, MadeForm, NsOf, LabelOf
  <2>2. CASE \E c \in Certs : o = CertSecret(t, c)
    BY <2>2, ObjectFields DEF CertSecret, OnDest, FormOf, MadeForm, NsOf, LabelOf, Listable
  <2> QED
    BY <1>3, <2>1, <2>2 DEF Stunnel, CertSecret
<1>4. CASE o \in Server(t)
  BY <1>4, ObjectFields DEF Server, ServerPod, OnDest, FormOf, MadeForm, NsOf, LabelOf, Listable
<1>5. CASE o \in ClientEnd(t)
  BY <1>5, ObjectFields DEF ClientEnd, OnSource, FormOf, MadeForm, NsOf, LabelOf
<1>6. CASE \E a \in Nat : o = ClientPod(t, a)
  BY <1>6, ObjectFields DEF ClientPod, OnSource, FormOf, MadeForm, NsOf, LabelOf
<1>7. CASE o = ClientSecret(t)
  BY <1>7, ObjectFields DEF ClientSecret, OnSource, FormOf, MadeForm, NsOf, LabelOf
<1> QED
  BY <1>1, <1>2, <1>3, <1>4, <1>5, <1>6, <1>7 DEF Made

LEMMA CopyHasForm ==
  ASSUME NEW t, NEW u, NEW c, Source[u] = Source[t],
         NEW o, o = CopyOf(t, CertSecret(u, c))
  PROVE  /\ FormOf(o, t)
         /\ o.cluster = "source" /\ o.kind = "secret" /\ o.name = <<Target[u], c>>
<1>1. /\ o.cluster = "source" /\ o.kind = "secret" /\ o.name = <<Target[u], c>>
  BY CopyForm DEF Object
<1> QED
  BY <1>1, CopyForm DEF FormOf, NsOf, LabelOf

LEMMA IsOfFields ==
  ASSUME NEW t, NEW o, IsOf(o, t)
  PROVE  /\ FormOf(o, t)
         /\ o.by = t
         /\ o.cluster \in {"source", "dest"}
         /\ o.kind \in Kinds
         /\ o.ns = NsOf(o.cluster, t)
         /\ o.label = LabelOf(o.kind, t)
<1>1. FormOf(o, t) /\ o.cluster \in {"source", "dest"} /\ o.kind \in Kinds
  BY MadeHasForm, CopyHasForm DEF IsOf, Namesake, MadeForm, Kinds
<1> QED
  BY <1>1, ObjectFields DEF FormOf

\* Of one invocation, there is one object of a key.
LEMMA SameKeySame ==
  ASSUME NEW t, NEW o, NEW n, FormOf(o, t), FormOf(n, t), Key(o) = Key(n)
  PROVE  o = n
<1>1. o.cluster = n.cluster /\ o.kind = n.kind /\ o.name = n.name
  BY DEF Key
<1> QED
  BY <1>1 DEF FormOf

\* An object with the key of one that an invocation creates is that one, or is
\* of an invocation like it.
LEMMA Distinct ==
  ASSUME NEW t \in Transfers, NEW u \in Transfers, NEW o, NEW n,
         IsOf(o, t), Made(n, u), Key(o) = Key(n)
  PROVE  Alike(t, u) /\ (t = u => o = n)
<1>1. FormOf(n, u) /\ MadeForm(n, u) /\ FormOf(o, t)
  BY MadeHasForm, IsOfFields
<1>2. o.cluster = n.cluster /\ o.ns = n.ns /\ o.kind = n.kind /\ o.name = n.name
  BY DEF Key
<1>3. o.ns = NsOf(o.cluster, t) /\ n.ns = NsOf(n.cluster, u)
  BY IsOfFields DEF IsOf
<1>4. t = u => o = n
  BY <1>1, SameKeySame
<1>5. CASE n.cluster = "dest"
  <2>1. ToNs[t] = ToNs[u]
    BY <1>2, <1>3, <1>5 DEF NsOf
  <2>2. MadeForm(o, t)
    BY <1>2, <1>5, MadeHasForm, CopyHasForm DEF IsOf, Namesake
  <2>3. n.name[1] = Target[u] /\ o.name[1] = Target[t]
    BY <1>1, <1>2, <1>5, <2>2 DEF MadeForm
  <2> QED
    BY <1>2, <1>4, <2>1, <2>3 DEF Alike
<1>6. CASE n.cluster = "source"
  <2>1. FromNs[t] = FromNs[u]
    BY <1>2, <1>3, <1>6 DEF NsOf
  <2>2. MadeForm(o, t)
    <3>1. SUFFICES ASSUME NEW v \in Transfers, NEW c \in Listable, Namesake(v, t),
                          o = CopyOf(t, CertSecret(v, c))
                   PROVE  FALSE
      BY MadeHasForm DEF IsOf
    <3>2. o.kind = "secret" /\ o.name = <<Target[v], c>>
      BY <3>1, CopyHasForm DEF Namesake
    <3>3. n.name = <<Source[u], "rsync-client">>
      BY <1>1, <1>2, <1>6, <3>2 DEF MadeForm
    <3>4. <<Target[v], c>> = <<Source[u], "rsync-client">>
      BY <1>2, <3>2, <3>3
    <3>5. c = "rsync-client"
      BY <3>4
    <3> QED
      BY <3>5, TransferAssumption DEF Listable
  <2>3. n.name[1] = Source[u] /\ o.name[1] = Source[t]
    BY <1>1, <1>2, <1>6, <2>2 DEF MadeForm
  <2> QED
    BY <1>2, <1>4, <2>1, <2>3 DEF Alike
<1> QED
  BY <1>1, <1>5, <1>6 DEF MadeForm

\* So what the client or the library reconciles is added, and replaces at most
\* what is of invocations like this one.
LEMMA Reconciled ==
  ASSUME NEW t \in Transfers, NEW new, \A n \in new : Made(n, t) /\ n.by = t,
         AllShaped, Reconcile(new)
  PROVE  /\ objects' \subseteq objects \cup new /\ new \subseteq objects'
         /\ \A o \in objects \ objects' :
              /\ Alike(t, o.by) /\ t # o.by
              /\ \E n \in new : n.by = t /\ Key(n) = Key(o)
<1>1. objects' = {o \in objects : \A n \in new : Key(o) # Key(n)} \cup new
  BY DEF Reconcile
<1>2. ASSUME NEW o \in objects, o \notin objects'
      PROVE  /\ Alike(t, o.by) /\ t # o.by
             /\ \E n \in new : n.by = t /\ Key(n) = Key(o)
  <2>1. PICK n \in new : Key(o) = Key(n)
    BY <1>1, <1>2
  <2>2. Alike(o.by, t) /\ (o.by = t => o = n)
    BY <2>1, Distinct DEF AllShaped
  <2>3. o # n
    BY <1>1, <1>2
  <2>4. Alike(t, o.by)
    BY <2>2 DEF Alike
  <2> QED
    BY <2>1, <2>2, <2>3, <2>4
<1> QED
  BY <1>1, <1>2

LEMMA ReconcileAdds ==
  ASSUME NEW t \in Transfers, NEW new, \A n \in new : Made(n, t) /\ n.by = t,
         AllShaped, Reconcile(new), Apart(t)
  PROVE  objects' = objects \cup new
<1>1. \A o \in objects \ objects' : o.by \in Transfers /\ Alike(t, o.by) /\ t # o.by
  BY Reconciled DEF AllShaped
<1>2. objects \subseteq objects'
  BY <1>1 DEF Apart
<1> QED
  BY <1>2, Reconciled

LEMMA ExistsOwn ==
  ASSUME NEW t \in Transfers, Apart(t), AllShaped, NEW n, Made(n, t), Exists(n)
  PROVE  n \in objects
<1>1. PICK o \in objects : Key(o) = Key(n)
  BY DEF Exists
<1>2. o.by \in Transfers /\ Alike(o.by, t) /\ (o.by = t => o = n)
  BY <1>1, Distinct DEF AllShaped
<1>3. Alike(t, o.by)
  BY <1>2 DEF Alike
<1> QED
  BY <1>2, <1>3 DEF Apart

\* What a query by label and namespace finds is of invocations like the one that
\* asks, and of one told apart all that it has of the kind.
LEMMA Finds ==
  ASSUME NEW t \in Transfers, NEW cluster \in {"source", "dest"}, NEW kind, kind # "pvc",
         AllShaped
  PROVE  \A o \in Found(cluster, NsOf(cluster, t), kind, Source[t]) :
           /\ o.by \in Transfers /\ Alike(t, o.by)
           /\ IsOf(o, o.by) /\ Source[o.by] = Source[t]
           /\ NsOf(cluster, o.by) = NsOf(cluster, t)
<1>1. ASSUME NEW o \in Found(cluster, NsOf(cluster, t), kind, Source[t])
      PROVE  /\ o.by \in Transfers /\ Alike(t, o.by)
             /\ IsOf(o, o.by) /\ Source[o.by] = Source[t]
             /\ NsOf(cluster, o.by) = NsOf(cluster, t)
  <2>1. /\ o \in objects /\ o.cluster = cluster /\ o.kind = kind
        /\ o.ns = NsOf(cluster, t) /\ o.label = Source[t]
    BY <1>1 DEF Found
  <2>2. o.by \in Transfers /\ IsOf(o, o.by)
    BY <2>1 DEF AllShaped
  <2>3. o.ns = NsOf(cluster, o.by) /\ o.label = Source[o.by]
    BY <2>1, <2>2, IsOfFields DEF LabelOf
  <2>4. Alike(t, o.by)
    BY <2>1, <2>3 DEF Alike, NsOf
  <2> QED
    BY <2>1, <2>2, <2>3, <2>4
<1> QED
  BY <1>1

LEMMA FindsOnlyOwn ==
  ASSUME NEW t \in Transfers, NEW cluster \in {"source", "dest"}, NEW kind, kind # "pvc",
         AllShaped, Apart(t)
  PROVE  Found(cluster, NsOf(cluster, t), kind, Source[t])
           = {o \in Own(t) : o.cluster = cluster /\ o.kind = kind}
<1>1. ASSUME NEW o \in Found(cluster, NsOf(cluster, t), kind, Source[t])
      PROVE  o \in Own(t) /\ o.cluster = cluster /\ o.kind = kind
  BY <1>1, Finds DEF Apart, Own, Found
<1>2. ASSUME NEW o \in Own(t), o.cluster = cluster, o.kind = kind
      PROVE  o \in Found(cluster, NsOf(cluster, t), kind, Source[t])
  <2>1. o \in objects /\ IsOf(o, t)
    BY <1>2 DEF AllShaped, Own
  <2>2. o.ns = NsOf(cluster, t) /\ o.label = Source[t]
    BY <1>2, <2>1, IsOfFields DEF LabelOf
  <2> QED
    BY <1>2, <2>1, <2>2 DEF Found
<1> QED
  BY <1>1, <1>2

LEMMA MadeIsOf ==
  ASSUME NEW t, NEW n, Made(n, t)
  PROVE  IsOf(n, t) /\ n.by = t
BY IsOfFields DEF IsOf

LEMMA ListableForm ==
  ASSUME NEW t, NEW c
  PROVE  /\ CertSecret(t, c).kind = "secret"
         /\ CertSecret(t, c).cluster = "dest"
         /\ CertSecret(t, c).name = <<Target[t], c>>
         /\ CertSecret(t, c).by = t
BY DEF CertSecret, OnDest, Object

LEMMA CertSecretsDiffer ==
  ASSUME NEW t, NEW c, NEW d, CertSecret(t, c) = CertSecret(t, d)
  PROVE  c = d
<1>1. <<Target[t], c>> = <<Target[t], d>>
  BY ListableForm
<1> QED
  BY <1>1

\* A secret on the destination cluster is one that a list finds.
LEMMA SecretListable ==
  ASSUME NEW t, NEW o, IsOf(o, t), o.cluster = "dest", o.kind = "secret"
  PROVE  \E c \in Listable : o = CertSecret(t, c)
<1>1. FormOf(o, t)
  BY IsOfFields
<1>2. MadeForm(o, t)
  BY MadeHasForm, CopyHasForm DEF IsOf, Namesake
<1>3. PICK c \in Listable : o.name = <<Target[t], c>>
  BY <1>2 DEF MadeForm
<1>4. o = Object("dest", ToNs[t], "secret", <<Target[t], c>>, Source[t], t)
  BY <1>1, <1>3 DEF FormOf, NsOf, LabelOf
<1> QED
  BY <1>4 DEF CertSecret, OnDest

LEMMA GCStepsCover ==
  /\ Len(GCSteps) = 8
  /\ GCSteps[1][1] = "source" /\ GCSteps[1][2] = "pod"
  /\ \A i \in 1..8 : GCSteps[i][1] \in {"source", "dest"} /\ GCSteps[i][2] # "pvc"
  /\ \A t, o : IsOf(o, t) /\ o.kind # "pvc" =>
       \E i \in 1..8 : o.cluster = GCSteps[i][1] /\ o.kind = GCSteps[i][2]
<1>1. Len(GCSteps) = 8
  BY DEF GCSteps
<1>2. /\ GCSteps[1][1] = "source" /\ GCSteps[1][2] = "pod"
      /\ GCSteps[2][1] = "source" /\ GCSteps[2][2] = "config"
      /\ GCSteps[3][1] = "source" /\ GCSteps[3][2] = "secret"
      /\ GCSteps[4][1] = "dest" /\ GCSteps[4][2] = "pod"
      /\ GCSteps[5][1] = "dest" /\ GCSteps[5][2] = "config"
      /\ GCSteps[6][1] = "dest" /\ GCSteps[6][2] = "secret"
      /\ GCSteps[7][1] = "dest" /\ GCSteps[7][2] = "endpoint"
      /\ GCSteps[8][1] = "dest" /\ GCSteps[8][2] = "service"
  BY DEF GCSteps
<1>3. \A i \in 1..8 : i = 1 \/ i = 2 \/ i = 3 \/ i = 4 \/ i = 5 \/ i = 6 \/ i = 7 \/ i = 8
  OBVIOUS
<1>4. \A i \in 1..8 : GCSteps[i][1] \in {"source", "dest"} /\ GCSteps[i][2] # "pvc"
  BY <1>2, <1>3
<1>5. ASSUME NEW t, NEW o, IsOf(o, t), o.kind # "pvc"
      PROVE  \E i \in 1..8 : o.cluster = GCSteps[i][1] /\ o.kind = GCSteps[i][2]
  <2>1. CASE Made(o, t)
    BY <1>2, <1>5, <2>1, MadeHasForm DEF MadeForm
  <2>2. CASE o.cluster = "source" /\ o.kind = "secret"
    BY <1>2, <2>2
  <2> QED
    BY <1>5, <2>1, <2>2, CopyHasForm DEF IsOf, Namesake
<1> QED
  BY <1>1, <1>2, <1>4, <1>5

-----------------------------------------------------------------------------
(* What a step of one invocation does to those told apart: nothing.        *)

Untouched(u) ==
  /\ Own(u)' = Own(u)
  /\ pc'[u] = pc[u]
  /\ toCopy'[u] = toCopy[u]
  /\ gcAt'[u] = gcAt[u]
  /\ attempts'[u] = attempts[u]
  /\ copied'[u] = copied[u]
  /\ password'[u] = password[u]
  /\ u \in followed' <=> u \in followed

LEMMA PodsKept ==
  ASSUME NEW t, Own(t)' = Own(t)
  PROVE  OwnPods(t)' = OwnPods(t)
BY DEF OwnPods

LEMMA Frame ==
  ASSUME NEW t, OfOne(t), Untouched(t)
  PROVE  OfOne(t)'
<1> USE DEF Untouched
<1>2. Placed(t)'
  BY DEF OfOne, Placed
<1>3. (LeftPods(t)' <=> LeftPods(t)) /\ (Past(t)' <=> Past(t))
  BY PodsKept DEF LeftPods, Past
<1>4. Barred(t)'
  BY <1>3 DEF OfOne, Barred
<1>5. Alone(t)'
  BY <1>3, PodsKept DEF OfOne, Alone
<1>6. Counted(t)'
  BY DEF OfOne, Counted
<1>7. Cleaned(t)'
  BY DEF OfOne, Cleaned, Gone
<1> QED
  BY <1>2, <1>4, <1>5, <1>6, <1>7 DEF OfOne

\* Objects are added to those of one invocation.
LEMMA AddsOwn ==
  ASSUME NEW t, NEW new, \A n \in new : n.by = t,
         objects' = objects \cup new
  PROVE  /\ Own(t)' = Own(t) \cup new
         /\ \A u : u # t => Own(u)' = Own(u)
BY DEF Own

\* Objects that are no pods leave it as it was about pods.
LEMMA NoPodsAdded ==
  ASSUME NEW t, NEW new, \A n \in new : n.kind # "pod",
         Own(t)' = Own(t) \cup new, followed' = followed, copied'[t] = copied[t]
  PROVE  /\ OwnPods(t)' = OwnPods(t)
         /\ LeftPods(t)' <=> LeftPods(t)
         /\ Past(t)' <=> Past(t)
<1>1. OwnPods(t)' = OwnPods(t)
  BY DEF OwnPods
<1>2. ServerPod(t).kind = "pod"
  BY DEF ServerPod, OnDest, Object
<1> QED
  BY <1>1, <1>2 DEF LeftPods, Past

-----------------------------------------------------------------------------
(* Every step of an invocation, told apart from the others or not, keeps   *)
(* the types, leaves those told apart untouched, and takes away only what  *)
(* it may.                                                                 *)

Others(t) == \A u \in Transfers : Apart(u) /\ u # t => Untouched(u)

May(t, o) ==
  /\ o.kind # "pvc"
  /\ Alike(t, o.by)
  /\ \/ pc[t] = "gc" /\ <<pc[t], gcAt[t]>>' # <<pc[t], gcAt[t]>>
     \/ t # o.by /\ \E n \in objects' : n.by = t /\ Key(n) = Key(o)

Orderly(t) == Types' /\ Others(t) /\ \A o \in objects \ objects' : May(t, o)

LEMMA ServerPodForm ==
  ASSUME NEW t
  PROVE  /\ ServerPod(t).cluster = "dest" /\ ServerPod(t).kind = "pod" /\ ServerPod(t).by = t
         /\ ServerPod(t) \in Server(t)
         /\ \A n \in Server(t) : n.cluster = "dest"
BY DEF ServerPod, Server, OnDest, Object

LEMMA SetUp ==
  ASSUME NEW t \in Transfers, NEW n
  PROVE  /\ n = Claim(t) => n.kind = "pvc"
         /\ n \in Endpoint(t) \cup Stunnel(t) \cup ClientEnd(t) => n.kind # "pod"
         /\ n \in Endpoint(t) \cup Stunnel(t) \cup Server(t) \cup ClientEnd(t) => n.kind # "pvc"
BY DEF Claim, Endpoint, Route, Stunnel, Server, ServerPod, ClientEnd, OnDest, OnSource, Object

\* The pods of a client that is created.
LEMMA ClientForm ==
  ASSUME NEW t \in Transfers, Types
  PROVE  /\ Client(t) = {ClientPod(t, attempts[t]), ClientSecret(t)}
         /\ \A n \in Client(t) : Made(n, t) /\ n.kind # "pvc"
         /\ ClientPod(t, attempts[t]).cluster = "source"
         /\ ClientPod(t, attempts[t]).kind = "pod"
         /\ ClientSecret(t).kind = "secret"
<1>1. Client(t) = {ClientPod(t, attempts[t]), ClientSecret(t)}
  BY DEF Client, ClientPod, ClientSecret
<1>2. attempts[t] \in Nat
  BY DEF Types, Sorts
<1>3. \A n \in Client(t) : Made(n, t)
  BY <1>1, <1>2 DEF Made
<1> QED
  BY <1>1, <1>3 DEF ClientPod, ClientSecret, OnSource, Object

\* The steps that create and delete nothing.
LEMMA StillOrderly ==
  ASSUME NEW t \in Transfers, Types,
         \/ Start(t) \/ Fail(t) \/ WaitForEndpoint(t) \/ ListSecrets(t) \/ CopyRefused(t)
         \/ SecretsCopied(t) \/ WaitForServer(t) \/ FollowClientLogs(t)
  PROVE  Orderly(t)
<1> DEFINE found == Found("dest", ToNs[t], "secret", Source[t])
<1>1. UNCHANGED <<peers, objects>>
  BY DEF Start, Fail, WaitForEndpoint, ListSecrets, CopyRefused, SecretsCopied, WaitForServer,
         FollowClientLogs
<1>2. \A o \in objects \ objects' : May(t, o)
  BY <1>1
<1>3. AllShaped'
  BY <1>1 DEF Types, AllShaped
<1>4. \/ toCopy' = toCopy
      \/ toCopy' = [toCopy EXCEPT ![t] = {}]
      \/ toCopy' = [toCopy EXCEPT ![t] = found]
  BY DEF Start, Fail, WaitForEndpoint, ListSecrets, CopyRefused, SecretsCopied, WaitForServer,
         FollowClientLogs
<1>5. \A s \in found : \E u \in Transfers, c \in Listable : Namesake(u, t) /\ s = CertSecret(u, c)
  <2> TAKE s \in found
  <2>1. /\ s.by \in Transfers /\ IsOf(s, s.by)
        /\ Source[s.by] = Source[t] /\ ToNs[s.by] = ToNs[t]
    BY Finds DEF Types, NsOf
  <2>2. s.cluster = "dest" /\ s.kind = "secret"
    BY DEF Found
  <2>3. PICK c \in Listable : s = CertSecret(s.by, c)
    BY <2>1, <2>2, SecretListable
  <2> QED
    BY <2>1, <2>3 DEF Namesake
<1>6. AllListed'
  <2>1. DOMAIN toCopy = Transfers /\ AllListed
    BY DEF Types, Sorts
  <2> HIDE DEF found
  <2>2. \A u \in Transfers : toCopy'[u] = toCopy[u] \/ toCopy'[u] = {} \/ (u = t /\ toCopy'[u] = found)
    BY <1>4, <2>1
  <2> SUFFICES ASSUME NEW u \in Transfers, NEW s \in toCopy'[u]
               PROVE  \E v \in Transfers, c \in Listable : Namesake(v, u) /\ s = CertSecret(v, c)
    BY DEF AllListed
  <2> QED
    BY <1>5, <2>1, <2>2 DEF AllListed
<1>7. Sorts'
  <2>1. DOMAIN toCopy' = Transfers
    BY <1>4 DEF Types, Sorts
  <2>2. pc' \in [Transfers -> Steps] /\ \A u \in Transfers \ {t} : pc'[u] = pc[u]
    BY DEF Types, Sorts, Steps, Go, Start, Fail, WaitForEndpoint, ListSecrets, CopyRefused,
           SecretsCopied, WaitForServer, FollowClientLogs
  <2>3. gcAt' \in [Transfers -> 1..Len(GCSteps)]
    BY GCStepsCover
    DEF Types, Sorts, Start, Fail, WaitForEndpoint, ListSecrets, CopyRefused,
        SecretsCopied, WaitForServer, FollowClientLogs
  <2>4. attempts' \in [Transfers -> Nat] /\ copied' \in [Transfers -> Nat]
    <3>1. attempts \in [Transfers -> Nat] /\ copied \in [Transfers -> Nat]
      BY DEF Types, Sorts
    <3>2. attempts' = attempts \/ attempts' = [attempts EXCEPT ![t] = @ + 1]
      BY DEF Start, Fail, WaitForEndpoint, ListSecrets, CopyRefused, SecretsCopied,
             WaitForServer, FollowClientLogs
    <3>3. copied' = copied \/ copied' = [copied EXCEPT ![t] = @ + 1]
      BY DEF Start, Fail, WaitForEndpoint, ListSecrets, CopyRefused, SecretsCopied,
             WaitForServer, FollowClientLogs
    <3>4. attempts' \in [Transfers -> Nat]
      BY <3>1, <3>2
    <3> QED
      BY <3>1, <3>3, <3>4
  <2>5. followed' \subseteq Transfers
    BY DEF Types, Sorts, Start, Fail, WaitForEndpoint, ListSecrets, CopyRefused,
           SecretsCopied, WaitForServer, FollowClientLogs
  <2> QED
    BY <1>1, <2>1, <2>2, <2>3, <2>4, <2>5 DEF Types, Sorts, peers
<1>8. Others(t)
  <2> SUFFICES ASSUME NEW u \in Transfers, u # t PROVE Untouched(u)
    BY DEF Others
  <2>1. Own(u)' = Own(u) /\ password' = password
    BY <1>1 DEF Own, peers
  <2>2. toCopy'[u] = toCopy[u]
    BY <1>4 DEF Types, Sorts
  <2>3. /\ pc'[u] = pc[u] /\ gcAt'[u] = gcAt[u]
        /\ attempts'[u] = attempts[u] /\ copied'[u] = copied[u]
        /\ (u \in followed' <=> u \in followed)
    BY DEF Types, Sorts, Go, Start, Fail, WaitForEndpoint, ListSecrets, CopyRefused,
           SecretsCopied, WaitForServer, FollowClientLogs
  <2> QED
    BY <2>1, <2>2, <2>3 DEF Untouched
<1> QED
  BY <1>2, <1>3, <1>6, <1>7, <1>8 DEF Orderly, Types

\* Objects are created, or replace what is of invocations like this one.
LEMMA MakesOrderly ==
  ASSUME NEW t \in Transfers, Types, NEW new,
         \A n \in new : n.by = t /\ IsOf(n, t),
         objects' \subseteq objects \cup new,
         \A o \in objects \ objects' : May(t, o),
         toCopy' = toCopy \/ \E s : toCopy' = [toCopy EXCEPT ![t] = @ \ {s}],
         pc' = pc \/ \E to \in Steps : pc' = [pc EXCEPT ![t] = to],
         admitted' \subseteq admitted,
         password' \in [Transfers -> Transfers \X Nat],
         \A u \in Transfers : ~Alike(t, u) => password'[u] = password[u],
         UNCHANGED <<most, host, gcAt, attempts, copied, followed>>
  PROVE  Orderly(t)
<1>1. AllShaped'
  BY DEF Types, AllShaped
<1>2. DOMAIN toCopy' = Transfers /\ \A u \in Transfers : toCopy'[u] \subseteq toCopy[u]
  <2>1. CASE toCopy' = toCopy
    BY <2>1 DEF Types, Sorts
  <2>2. ASSUME NEW s, toCopy' = [toCopy EXCEPT ![t] = @ \ {s}]
        PROVE  DOMAIN toCopy' = Transfers /\ \A u \in Transfers : toCopy'[u] \subseteq toCopy[u]
    BY <2>2 DEF Types, Sorts
  <2> QED
    BY <2>1, <2>2
<1>3. AllListed'
  BY <1>2 DEF Types, AllListed
<1>4. Sorts'
  <2>1. pc' \in [Transfers -> Steps]
    BY DEF Types, Sorts
  <2> QED
    BY <1>2, <2>1 DEF Types, Sorts
<1>5. Others(t)
  <2> SUFFICES ASSUME NEW u \in Transfers, Apart(u), u # t PROVE Untouched(u)
    BY DEF Others
  <2>1. ~Alike(t, u)
    BY DEF Apart, Alike
  <2>2. objects' \subseteq objects \cup new /\ \A n \in new : n.by # u
    OBVIOUS
  <2>3. \A o \in objects : o.by = u => o \in objects'
    BY <2>1 DEF May
  <2>4. Own(u)' = Own(u)
    BY <2>2, <2>3 DEF Own
  <2>5. pc'[u] = pc[u] /\ toCopy'[u] = toCopy[u]
    BY DEF Types, Sorts
  <2> QED
    BY <2>1, <2>4, <2>5 DEF Untouched
<1> QED
  BY <1>1, <1>3, <1>4, <1>5 DEF Orderly, Types

LEMMA ReconcilesOrderly ==
  ASSUME NEW t \in Transfers, Types, NEW new, Reconcile(new),
         \A n \in new : Made(n, t) /\ n.kind # "pvc",
         NEW to \in Steps, pc' = [pc EXCEPT ![t] = to],
         admitted' \subseteq admitted,
         password' \in [Transfers -> Transfers \X Nat],
         \A u \in Transfers : ~Alike(t, u) => password'[u] = password[u],
         UNCHANGED <<most, host, toCopy, gcAt, attempts, copied, followed>>
  PROVE  Orderly(t)
<1>1. \A n \in new : Made(n, t) /\ n.by = t /\ IsOf(n, t)
  BY MadeIsOf
<1>2. /\ objects' \subseteq objects \cup new /\ new \subseteq objects'
      /\ \A o \in objects \ objects' :
           /\ Alike(t, o.by) /\ t # o.by
           /\ \E n \in new : n.by = t /\ Key(n) = Key(o)
  BY <1>1, Reconciled DEF Types
<1>3. ASSUME NEW o \in objects \ objects'
      PROVE  May(t, o)
  <2>1. PICK n \in new : n.by = t /\ Key(n) = Key(o)
    BY <1>2
  <2>2. n.kind = o.kind
    BY <2>1 DEF Key
  <2> QED
    BY <1>2, <2>1, <2>2 DEF May
<1>4. \A o \in objects \ objects' : May(t, o)
  BY <1>3
<1> QED
  BY <1>1, <1>2, <1>4, MakesOrderly

LEMMA CreatesOrderly ==
  ASSUME NEW t \in Transfers, Types,
         \/ CreatePVC(t) \/ CreateEndpoint(t) \/ StunnelServer(t) \/ CopySecret(t)
         \/ StunnelClient(t) \/ RsyncServer(t) \/ RsyncClient(t)
  PROVE  Orderly(t)
<1>0. password \in [Transfers -> Transfers \X Nat]
  BY DEF Types, Sorts
<1>1. CASE CreatePVC(t)
  <2> DEFINE new == {Claim(t)}
  <2>1. \A n \in new : n.by = t /\ IsOf(n, t)
    BY MadeIsOf DEF Made
  <2>2. objects \subseteq objects' /\ objects' \subseteq objects \cup new
    BY <1>1 DEF CreatePVC
  <2>3. \A o \in objects \ objects' : May(t, o)
    BY <2>2
  <2>4. \E to \in Steps : pc' = [pc EXCEPT ![t] = to]
    BY <1>1 DEF CreatePVC, Go, Steps
  <2> HIDE DEF new
  <2> QED
    BY <1>0, <1>1, <2>1, <2>2, <2>3, <2>4, MakesOrderly DEF CreatePVC, peers
<1>2. CASE CreateEndpoint(t)
  <2>1. \A n \in Endpoint(t) : Made(n, t) /\ n.kind # "pvc"
    BY SetUp DEF Made
  <2>2. "waitEndpoint" \in Steps
    BY DEF Steps
  <2>3. admitted' \subseteq admitted
    BY <1>2 DEF CreateEndpoint, Withdraw
  <2> QED
    BY <1>0, <1>2, <2>1, <2>2, <2>3, ReconcilesOrderly DEF CreateEndpoint, Go
<1>3. CASE StunnelServer(t)
  <2>1. \A n \in Stunnel(t) : Made(n, t) /\ n.kind # "pvc"
    BY SetUp DEF Made
  <2>2. "listSecrets" \in Steps
    BY DEF Steps
  <2> QED
    BY <1>0, <1>3, <2>1, <2>2, ReconcilesOrderly DEF StunnelServer, Go, peers
<1>4. CASE CopySecret(t)
  <2>1. PICK s \in toCopy[t] : /\ objects' = objects \cup {CopyOf(t, s)}
                               /\ toCopy' = [toCopy EXCEPT ![t] = @ \ {s}]
    BY <1>4 DEF CopySecret
  <2>2. PICK u \in Transfers, c \in Listable : Namesake(u, t) /\ s = CertSecret(u, c)
    BY DEF Types, AllListed
  <2> DEFINE new == {CopyOf(t, s)}
  <2>3. \A n \in new : n.by = t /\ IsOf(n, t)
    BY <2>2, IsOfFields DEF IsOf
  <2>4. objects' \subseteq objects \cup new /\ objects \subseteq objects'
    BY <2>1
  <2>5. \A o \in objects \ objects' : May(t, o)
    BY <2>4
  <2> HIDE DEF new
  <2> QED
    BY <1>0, <1>4, <2>1, <2>3, <2>4, <2>5, MakesOrderly DEF CopySecret, peers
<1>5. CASE StunnelClient(t)
  <2>1. \A n \in ClientEnd(t) : Made(n, t) /\ n.kind # "pvc"
    BY SetUp DEF Made
  <2>2. "rsyncServer" \in Steps
    BY DEF Steps
  <2> QED
    BY <1>0, <1>5, <2>1, <2>2, ReconcilesOrderly DEF StunnelClient, Go, peers
<1>6. CASE RsyncServer(t)
  <2>1. \A n \in Server(t) : Made(n, t) /\ n.kind # "pvc"
    BY SetUp DEF Made
  <2>2. "waitServer" \in Steps
    BY DEF Steps
  <2>3. PICK known \in {<<t, attempts[t]>>} \cup
                       (IF Exists(ServerPod(t)) THEN {password[t]} ELSE {}) :
          password' = [u \in Transfers |->
            IF Key(ServerPod(u)) = Key(ServerPod(t)) THEN known ELSE password[u]]
    BY <1>6 DEF RsyncServer
  <2>4. known \in Transfers \X Nat
    BY <1>0, <2>3 DEF Types, Sorts
  <2>5. password' \in [Transfers -> Transfers \X Nat]
    BY <1>0, <2>3, <2>4
  <2>6. ASSUME NEW u \in Transfers, Key(ServerPod(u)) = Key(ServerPod(t))
        PROVE  Alike(t, u)
    <3>1. Made(ServerPod(t), t) /\ Made(ServerPod(u), u)
      BY ServerPodForm DEF Made
    <3> QED
      BY <2>6, <3>1, MadeIsOf, Distinct
  <2>7. \A u \in Transfers : ~Alike(t, u) => password'[u] = password[u]
    BY <2>3, <2>6
  <2> QED
    BY <1>6, <2>1, <2>2, <2>5, <2>7, ReconcilesOrderly DEF RsyncServer, Go
<1>7. CASE RsyncClient(t)
  <2> DEFINE new == Client(t)
  <2>1. \A n \in new : Made(n, t) /\ n.kind # "pvc"
    BY ClientForm
  <2>2. "follow" \in Steps
    BY DEF Steps
  <2>3. Reconcile(new)
    BY <1>7 DEF RsyncClient
  <2> HIDE DEF new
  <2> QED
    BY <1>0, <1>7, <2>1, <2>2, <2>3, ReconcilesOrderly DEF RsyncClient, Go, peers
<1> QED
  BY <1>1, <1>2, <1>3, <1>4, <1>5, <1>6, <1>7

\* A step of garbageCollect, where it is after that and what it takes away.
LEMMA CollectForm ==
  ASSUME NEW t \in Transfers, Types, Collect(t),
         NEW g, g = gcAt[t]
  PROVE  /\ g \in 1..8 /\ pc[t] = "gc"
         /\ \/ g = 8 /\ pc' = [pc EXCEPT ![t] = "done"] /\ gcAt' = gcAt
            \/ g # 8 /\ gcAt' = [gcAt EXCEPT ![t] = g + 1] /\ pc' = pc
         /\ \/ g = 8 /\ pc'[t] = "done" /\ gcAt'[t] = g
            \/ g < 8 /\ pc'[t] = "gc" /\ gcAt'[t] = g + 1
         /\ GCSteps[g][1] \in {"source", "dest"} /\ GCSteps[g][2] # "pvc"
         /\ objects' = objects \ Found(GCSteps[g][1], NsOf(GCSteps[g][1], t), GCSteps[g][2], Source[t])
<1>1. g \in 1..8 /\ pc[t] = "gc"
  BY GCStepsCover DEF Collect, Types, Sorts
<1>2. \/ g = 8 /\ pc' = [pc EXCEPT ![t] = "done"] /\ gcAt' = gcAt
      \/ g # 8 /\ gcAt' = [gcAt EXCEPT ![t] = g + 1] /\ pc' = pc
  BY GCStepsCover DEF Collect
<1>3. \/ g = 8 /\ pc'[t] = "done" /\ gcAt'[t] = g
      \/ g < 8 /\ pc'[t] = "gc" /\ gcAt'[t] = g + 1
  BY <1>1, <1>2 DEF Types, Sorts
<1>4. \A cluster, kind : Collected(t, cluster, kind) = Found(cluster, NsOf(cluster, t), kind, Source[t])
  BY DEF Collected, NsOf
<1>5. objects' = objects \ Collected(t, GCSteps[g][1], GCSteps[g][2])
  BY DEF Collect
<1> QED
  BY <1>1, <1>2, <1>3, <1>4, <1>5, GCStepsCover

LEMMA CollectOrderly ==
  ASSUME NEW t \in Transfers, Types, Collect(t)
  PROVE  Orderly(t)
<1>1. PICK g : g = gcAt[t]
  OBVIOUS
<1>2. /\ g \in 1..8 /\ pc[t] = "gc"
      /\ \/ g = 8 /\ pc' = [pc EXCEPT ![t] = "done"] /\ gcAt' = gcAt
         \/ g # 8 /\ gcAt' = [gcAt EXCEPT ![t] = g + 1] /\ pc' = pc
      /\ \/ g = 8 /\ pc'[t] = "done" /\ gcAt'[t] = g
         \/ g < 8 /\ pc'[t] = "gc" /\ gcAt'[t] = g + 1
      /\ GCSteps[g][1] \in {"source", "dest"} /\ GCSteps[g][2] # "pvc"
      /\ objects' = objects \ Found(GCSteps[g][1], NsOf(GCSteps[g][1], t), GCSteps[g][2], Source[t])
  BY <1>1, CollectForm
<1>3. UNCHANGED <<most, host, password, toCopy, attempts, copied, followed>>
  BY DEF Collect
<1>4. \A o \in objects \ objects' : o.kind # "pvc" /\ Alike(t, o.by)
  <2> DEFINE going == Found(GCSteps[g][1], NsOf(GCSteps[g][1], t), GCSteps[g][2], Source[t])
  <2>1. \A o \in going : Alike(t, o.by)
    BY <1>2, Finds DEF Types
  <2>2. \A o \in going : o.kind # "pvc"
    BY <1>2 DEF Found
  <2> QED
    BY <1>2, <2>1, <2>2
<1>5. <<pc[t], gcAt[t]>>' # <<pc[t], gcAt[t]>>
  BY <1>1, <1>2
<1>6. \A o \in objects \ objects' : May(t, o)
  BY <1>2, <1>4, <1>5 DEF May
<1>7. AllShaped' /\ AllListed'
  BY <1>2, <1>3 DEF Types, AllShaped, AllListed
<1>8. Sorts'
  <2>1. admitted' \subseteq Transfers
    BY DEF Collect, Withdraw, Types, Sorts
  <2>2. gcAt' \in [Transfers -> 1..8]
    BY <1>2, GCStepsCover DEF Types, Sorts
  <2>3. pc' \in [Transfers -> Steps]
    BY <1>2 DEF Types, Sorts, Steps
  <2> QED
    BY <1>3, <2>1, <2>2, <2>3, GCStepsCover DEF Types, Sorts
<1>9. Others(t)
  <2> SUFFICES ASSUME NEW u \in Transfers, Apart(u), u # t PROVE Untouched(u)
    BY DEF Others
  <2>1. ~Alike(t, u)
    BY DEF Apart, Alike
  <2>2. \A o \in objects : o.by = u => o \in objects'
    BY <1>4, <2>1
  <2>3. Own(u)' = Own(u)
    BY <1>2, <2>2 DEF Own
  <2>4. pc'[u] = pc[u] /\ gcAt'[u] = gcAt[u]
    BY <1>2 DEF Types, Sorts
  <2> QED
    BY <1>3, <2>3, <2>4 DEF Untouched
<1> QED
  BY <1>6, <1>7, <1>8, <1>9 DEF Orderly, Types

LEMMA StepOrderly ==
  ASSUME NEW t \in Transfers, Types, Start(t) \/ Step(t) \/ Fail(t)
  PROVE  Orderly(t)
BY StillOrderly, CreatesOrderly, CollectOrderly DEF Step

-----------------------------------------------------------------------------
(* A step of an invocation that is told apart keeps what is said of it.    *)

\* Starting, failing and refusing: nothing is promised but the order.
LEMMA StartKept ==
  ASSUME NEW t \in Transfers, IInv, Apart(t), Start(t)
  PROVE  OfOne(t)'
<1> USE DEF Start, peers
<1>1. Own(t)' = Own(t)
  BY DEF Own
<1>2. pc'[t] = "createPVC" /\ toCopy'[t] = {} /\ gcAt'[t] = 1 /\ attempts'[t] = attempts[t] + 1
  BY DEF IInv, Types, Sorts
<1>3. /\ LeftPods(t)' <=> LeftPods(t)
      /\ Past(t)' <=> Past(t)
  BY <1>1, PodsKept DEF LeftPods, Past
<1>4. OfOne(t)
  BY DEF IInv
<1>5. copied[t] \in Nat /\ attempts[t] \in Nat
  BY DEF IInv, Types, Sorts
<1>6. Placed(t)'
  BY <1>2 DEF Placed, AfterClaim, AfterEndpoint, AfterStunnel, AfterCopies, AfterClientEnd, AfterServer
<1>7. Barred(t)'
  BY <1>1, <1>2, <1>3, <1>4 DEF OfOne, Barred
<1>8. Alone(t)'
  BY <1>2, <1>4 DEF OfOne, Alone, AfterServer
<1>9. Counted(t)'
  BY <1>2, <1>4, <1>5 DEF OfOne, Counted
<1>10. Cleaned(t)'
  BY <1>2 DEF Cleaned
<1> QED
  BY <1>1, <1>6, <1>7, <1>8, <1>9, <1>10 DEF OfOne

\* That the attempt ends, wherever it stands.
LEMMA FailedKept ==
  ASSUME NEW t \in Transfers, IInv, Apart(t),
         pc' = [pc EXCEPT ![t] = "failed"],
         UNCHANGED <<peers, objects, toCopy, gcAt, attempts, copied, followed>>
  PROVE  OfOne(t)'
<1> USE DEF peers
<1>1. Own(t)' = Own(t)
  BY DEF Own
<1>2. pc'[t] = "failed"
  BY DEF IInv, Types, Sorts
<1>3. /\ LeftPods(t)' <=> LeftPods(t)
      /\ Past(t)' <=> Past(t)
  BY <1>1, PodsKept DEF LeftPods, Past
<1>4. OfOne(t)
  BY DEF IInv
<1>5. Placed(t)'
  BY <1>2 DEF Placed, AfterClaim, AfterEndpoint, AfterStunnel, AfterCopies, AfterClientEnd, AfterServer
<1>6. Barred(t)'
  BY <1>1, <1>2, <1>3, <1>4 DEF OfOne, Barred
<1>7. Alone(t)'
  BY <1>2, <1>4 DEF OfOne, Alone, AfterServer
<1>8. Counted(t)'
  BY <1>2, <1>4 DEF OfOne, Counted, AfterEndpoint, AfterStunnel, AfterCopies, AfterClientEnd, AfterServer
<1>9. Cleaned(t)'
  BY <1>2 DEF Cleaned
<1> QED
  BY <1>1, <1>5, <1>6, <1>7, <1>8, <1>9 DEF OfOne

\* A step that adds objects that are no pods, and goes on: what is left to show
\* of it is what has been set up then.
LEMMA AddsKept ==
  ASSUME NEW t \in Transfers, IInv, Apart(t), NEW new,
         \A n \in new : n.by = t /\ n.kind # "pod" /\ IsOf(n, t),
         objects' = objects \cup new,
         NEW to \in Steps, pc' = [pc EXCEPT ![t] = to],
         \/ pc[t] = "createPVC" /\ to = "createEndpoint"
         \/ pc[t] = "createEndpoint" /\ to = "waitEndpoint"
         \/ pc[t] = "waitEndpoint" /\ to = "stunnelServer"
         \/ pc[t] = "stunnelServer" /\ to = "listSecrets"
         \/ pc[t] = "stunnelClient" /\ to = "rsyncServer"
         \/ pc[t] = "waitServer" /\ to = "rsyncClient",
         UNCHANGED <<password, toCopy, gcAt, attempts, copied, followed>>,
         Placed(t)'
  PROVE  OfOne(t)'
<1>1. Own(t)' = Own(t) \cup new
  BY AddsOwn
<1>2. pc'[t] = to
  BY DEF IInv, Types, Sorts
<1>3. /\ OwnPods(t)' = OwnPods(t)
      /\ LeftPods(t)' <=> LeftPods(t)
      /\ Past(t)' <=> Past(t)
  BY <1>1, NoPodsAdded
<1>4. OfOne(t)
  BY DEF IInv
<1>5. Barred(t)'
  BY <1>1, <1>2, <1>3, <1>4 DEF OfOne, Barred
<1>6. Alone(t)'
  BY <1>2, <1>3, <1>4 DEF OfOne, Alone, AfterServer
<1>7. Counted(t)'
  BY <1>2, <1>4 DEF OfOne, Counted, AfterEndpoint, AfterStunnel, AfterCopies, AfterClientEnd, AfterServer
<1>8. Cleaned(t)'
  BY <1>2 DEF Cleaned
<1> QED
  BY <1>5, <1>6, <1>7, <1>8 DEF OfOne

LEMMA CreatePVCKept ==
  ASSUME NEW t \in Transfers, IInv, Apart(t), CreatePVC(t)
  PROVE  OfOne(t)'
<1> DEFINE new == {Claim(t)}
<1> USE DEF CreatePVC, Go, peers
<1>1. \A n \in new : Made(n, t)
  BY DEF Made
<1>2. \A n \in new : n.by = t /\ n.kind # "pod" /\ IsOf(n, t)
  BY <1>1, MadeIsOf, SetUp
<1>3. Exists(Claim(t)) => Claim(t) \in objects
  BY <1>1, ExistsOwn DEF IInv, Types
<1>4. objects' = objects \cup new
  BY <1>3
<1>5. Own(t)' = Own(t) \cup new
  BY <1>2, <1>4, AddsOwn
<1>6. pc'[t] = "createEndpoint"
  BY DEF IInv, Types, Sorts
<1>7. Placed(t)'
  BY <1>5, <1>6 DEF Placed, AfterEndpoint, AfterStunnel, AfterCopies, AfterClientEnd, AfterServer
<1>8. "createEndpoint" \in Steps
  BY DEF Steps
<1> HIDE DEF new
<1> QED
  BY <1>2, <1>4, <1>7, <1>8, AddsKept

LEMMA CreateEndpointKept ==
  ASSUME NEW t \in Transfers, IInv, Apart(t), CreateEndpoint(t)
  PROVE  OfOne(t)'
<1> USE DEF CreateEndpoint, Go, peers
<1>1. \A n \in Endpoint(t) : Made(n, t)
  BY DEF Made
<1>2. \A n \in Endpoint(t) : n.by = t /\ n.kind # "pod" /\ IsOf(n, t)
  BY <1>1, MadeIsOf, SetUp
<1>3. objects' = objects \cup Endpoint(t)
  BY <1>1, MadeIsOf, ReconcileAdds DEF IInv, Types
<1>4. Own(t)' = Own(t) \cup Endpoint(t)
  BY <1>2, <1>3, AddsOwn
<1>5. pc'[t] = "waitEndpoint"
  BY DEF IInv, Types, Sorts
<1>6. Placed(t)
  BY DEF IInv, OfOne
<1>7. Placed(t)'
  BY <1>4, <1>5, <1>6 DEF Placed, AfterClaim, AfterEndpoint, AfterStunnel, AfterCopies, AfterClientEnd, AfterServer
<1>8. "waitEndpoint" \in Steps
  BY DEF Steps
<1> QED
  BY <1>2, <1>3, <1>7, <1>8, AddsKept

LEMMA StunnelServerKept ==
  ASSUME NEW t \in Transfers, IInv, Apart(t), StunnelServer(t)
  PROVE  OfOne(t)'
<1> USE DEF StunnelServer, Go, peers
<1>1. \A n \in Stunnel(t) : Made(n, t)
  BY DEF Made
<1>2. \A n \in Stunnel(t) : n.by = t /\ n.kind # "pod" /\ IsOf(n, t)
  BY <1>1, MadeIsOf, SetUp
<1>3. objects' = objects \cup Stunnel(t)
  BY <1>1, MadeIsOf, ReconcileAdds DEF IInv, Types
<1>4. Own(t)' = Own(t) \cup Stunnel(t)
  BY <1>2, <1>3, AddsOwn
<1>5. pc'[t] = "listSecrets"
  BY DEF IInv, Types, Sorts
<1>6. Placed(t)
  BY DEF IInv, OfOne
<1>7. Placed(t)'
  BY <1>4, <1>5, <1>6 DEF Placed, AfterClaim, AfterEndpoint, AfterStunnel, AfterCopies, AfterClientEnd, AfterServer
<1>8. "listSecrets" \in Steps
  BY DEF Steps
<1> QED
  BY <1>2, <1>3, <1>7, <1>8, AddsKept

LEMMA StunnelClientKept ==
  ASSUME NEW t \in Transfers, IInv, Apart(t), StunnelClient(t)
  PROVE  OfOne(t)'
<1> USE DEF StunnelClient, Go, peers
<1>1. \A n \in ClientEnd(t) : Made(n, t)
  BY DEF Made
<1>2. \A n \in ClientEnd(t) : n.by = t /\ n.kind # "pod" /\ IsOf(n, t)
  BY <1>1, MadeIsOf, SetUp
<1>3. objects' = objects \cup ClientEnd(t)
  BY <1>1, MadeIsOf, ReconcileAdds DEF IInv, Types
<1>4. Own(t)' = Own(t) \cup ClientEnd(t)
  BY <1>2, <1>3, AddsOwn
<1>5. pc'[t] = "rsyncServer"
  BY DEF IInv, Types, Sorts
<1>6. Placed(t)
  BY DEF IInv, OfOne
<1>7. Placed(t)'
  BY <1>4, <1>5, <1>6 DEF Placed, AfterClaim, AfterEndpoint, AfterStunnel, AfterCopies, AfterClientEnd, AfterServer
<1>8. "rsyncServer" \in Steps
  BY DEF Steps
<1> QED
  BY <1>2, <1>3, <1>7, <1>8, AddsKept

\* The two waits add nothing.
LEMMA WaitsKept ==
  ASSUME NEW t \in Transfers, IInv, Apart(t), WaitForEndpoint(t) \/ WaitForServer(t)
  PROVE  OfOne(t)'
<1>1. PICK to \in {"stunnelServer", "rsyncClient"} :
        /\ pc' = [pc EXCEPT ![t] = to]
        /\ \/ pc[t] = "waitEndpoint" /\ to = "stunnelServer"
           \/ pc[t] = "waitServer" /\ to = "rsyncClient"
  BY DEF WaitForEndpoint, WaitForServer, Go
<1>2. UNCHANGED <<peers, objects, toCopy, gcAt, attempts, copied, followed>>
  BY DEF WaitForEndpoint, WaitForServer
<1> DEFINE none == {}
<1>3. objects' = objects \cup none
  BY <1>2
<1>4. Own(t)' = Own(t) /\ toCopy'[t] = toCopy[t]
  BY <1>2 DEF Own
<1>5. pc'[t] = to
  BY <1>1 DEF IInv, Types, Sorts
<1>6. Placed(t)
  BY DEF IInv, OfOne
<1>7. Placed(t)'
  BY <1>1, <1>4, <1>5, <1>6 DEF Placed, AfterClaim, AfterEndpoint, AfterStunnel, AfterCopies, AfterClientEnd, AfterServer
<1>8. to \in Steps
  BY <1>1 DEF Steps
<1>9. \A n \in none : n.by = t /\ n.kind # "pod" /\ IsOf(n, t)
  OBVIOUS
<1> HIDE DEF none
<1> QED
  BY <1>1, <1>2, <1>3, <1>7, <1>8, <1>9, AddsKept DEF peers

LEMMA ListSecretsKept ==
  ASSUME NEW t \in Transfers, IInv, Apart(t), ListSecrets(t)
  PROVE  OfOne(t)'
<1> DEFINE found == {o \in Own(t) : o.cluster = "dest" /\ o.kind = "secret"}
<1> USE DEF ListSecrets, Go, peers
<1>1. Found("dest", ToNs[t], "secret", Source[t]) = found
  BY FindsOnlyOwn DEF IInv, Types, NsOf
<1>2. Own(t)' = Own(t)
  BY DEF Own
<1>3. pc[t] = "listSecrets" /\ pc'[t] = "copySecrets" /\ toCopy'[t] = found
  BY <1>1 DEF IInv, Types, Sorts
<1>4. OfOne(t)
  BY DEF IInv
<1>6. Stunnel(t) \subseteq Own(t)
  BY <1>3, <1>4 DEF OfOne, Placed, AfterStunnel
<1>7. \A c \in Certs : CertSecret(t, c) \in found
  BY <1>6, ListableForm DEF Stunnel, CertSecret
<1>8. Placed(t)'
  BY <1>2, <1>3, <1>4, <1>7 DEF OfOne, Placed, AfterClaim, AfterEndpoint, AfterStunnel, AfterCopies, AfterClientEnd, AfterServer
<1>9. Past(t)' <=> Past(t)
  BY <1>2, PodsKept DEF LeftPods, Past
<1>10. Barred(t)'
  BY <1>2, <1>3, <1>4, <1>7, <1>9 DEF OfOne, Barred
<1>11. Alone(t)'
  BY <1>3, <1>4 DEF OfOne, Alone, AfterServer
<1>12. Counted(t)'
  BY <1>3, <1>4 DEF OfOne, Counted, AfterEndpoint, AfterStunnel, AfterCopies, AfterClientEnd, AfterServer
<1>13. Cleaned(t)'
  BY <1>3 DEF Cleaned
<1> QED
  BY <1>2, <1>8, <1>10, <1>11, <1>12, <1>13 DEF OfOne

\* A copy is refused when there is one: so a certificate of an attempt that got
\* past them is still to be copied, for ever.
LEMMA CopySecretKept ==
  ASSUME NEW t \in Transfers, IInv, Apart(t), CopySecret(t)
  PROVE  OfOne(t)'
<1> USE DEF peers
<1>1. PICK s \in toCopy[t] :
        /\ ~Refused(t, s)
        /\ objects' = objects \cup {CopyOf(t, s)}
        /\ toCopy' = [toCopy EXCEPT ![t] = @ \ {s}]
  BY DEF CopySecret
<1>2. UNCHANGED <<peers, pc, gcAt, attempts, copied, followed>> /\ pc[t] = "copySecrets"
  BY DEF CopySecret
<1>3. OfOne(t)
  BY DEF IInv
<1>4. PICK c \in Listable : s = CertSecret(t, c)
  BY DEF IInv, Types, AllListed, Apart, Alike, Namesake
<1>5. CopyOf(t, s) = Copy(t, c)
  BY <1>4 DEF Copy
<1> DEFINE new == {Copy(t, c)}
<1>6. \A n \in new : n.by = t /\ n.kind # "pod" /\ IsOf(n, t)
  BY IsOfFields, CopyHasForm DEF IsOf, Copy, Namesake
<1>7. objects' = objects \cup new /\ Copy(t, c) \in new
  BY <1>1, <1>5
<1> HIDE DEF new
<1>8. Own(t)' = Own(t) \cup new
  BY <1>6, <1>7, AddsOwn
<1>9. toCopy'[t] = toCopy[t] \ {s} /\ pc'[t] = "copySecrets"
  BY <1>1, <1>2 DEF IInv, Types, Sorts
<1>10. \A d \in Certs : CertSecret(t, d) \in toCopy'[t] \/ Copy(t, d) \in Own(t)'
  <2> TAKE d \in Certs
  <2>1. CertSecret(t, d) \in toCopy[t] \/ Copy(t, d) \in Own(t)
    BY <1>2, <1>3 DEF OfOne, Placed
  <2>2. CASE CertSecret(t, d) = s
    BY <1>4, <1>7, <1>8, <2>2, CertSecretsDiffer
  <2> QED
    BY <1>8, <1>9, <2>1, <2>2
<1>11. Placed(t)'
  <2>1. /\ pc'[t] \in AfterClaim => Claim(t) \in Own(t)'
        /\ pc'[t] \in AfterEndpoint => Endpoint(t) \subseteq Own(t)'
        /\ pc'[t] \in AfterStunnel => Stunnel(t) \subseteq Own(t)'
    BY <1>2, <1>3, <1>8, <1>9 DEF OfOne, Placed
  <2>2. pc'[t] \notin AfterCopies /\ pc'[t] \notin AfterClientEnd /\ pc'[t] \notin AfterServer
    BY <1>9 DEF AfterCopies, AfterClientEnd, AfterServer
  <2> QED
    BY <1>10, <2>1, <2>2 DEF Placed
<1>12. OwnPods(t)' = OwnPods(t) /\ (Past(t)' <=> Past(t))
  BY <1>2, <1>6, <1>8, NoPodsAdded
<1>13. ASSUME Past(t), NEW d \in Certs
       PROVE  Copy(t, d) \in Own(t)' /\ CertSecret(t, d) \in toCopy'[t]
  <2>1. Copy(t, d) \in Own(t) /\ CertSecret(t, d) \in toCopy[t]
    BY <1>2, <1>3, <1>13 DEF OfOne, Barred
  <2>2. Copy(t, d) \in objects
    BY <2>1 DEF Own
  <2>3. CertSecret(t, d) # s
    BY <1>1, <2>2 DEF Refused, Exists, Copy
  <2> QED
    BY <1>8, <1>9, <2>1, <2>3
<1>14. Barred(t)'
  BY <1>12, <1>13 DEF Barred
<1>15. Alone(t)'
  BY <1>2, <1>3, <1>9 DEF OfOne, Alone, AfterServer
<1>16. Counted(t)'
  BY <1>2, <1>3 DEF OfOne, Counted
<1>17. Cleaned(t)'
  BY <1>9 DEF Cleaned
<1> QED
  BY <1>7, <1>11, <1>14, <1>15, <1>16, <1>17 DEF OfOne

\* Who gets past the secrets is the first one, or has all of an earlier attempt
\* collected.
LEMMA SecretsCopiedKept ==
  ASSUME NEW t \in Transfers, IInv, Apart(t), SecretsCopied(t)
  PROVE  OfOne(t)'
<1> USE DEF SecretsCopied, Go, peers
<1>1. OfOne(t)
  BY DEF IInv
<1>2. pc[t] = "copySecrets" /\ pc'[t] = "stunnelClient" /\ toCopy[t] = {}
      /\ copied'[t] = copied[t] + 1
  BY DEF IInv, Types, Sorts
<1>3. copied[t] \in Nat /\ attempts[t] \in Nat /\ copied[t] < attempts[t]
  BY <1>1, <1>2
  DEF IInv, Types, Sorts, OfOne, Counted, AfterEndpoint, AfterStunnel, AfterCopies, AfterClientEnd, AfterServer
<1>4. Own(t)' = Own(t)
  BY DEF Own
<1>5. \A c \in Certs : Copy(t, c) \in Own(t)
  BY <1>1, <1>2 DEF OfOne, Placed
<1>6. Placed(t)'
  BY <1>1, <1>2, <1>4, <1>5 DEF OfOne, Placed, AfterClaim, AfterEndpoint, AfterStunnel, AfterCopies, AfterClientEnd, AfterServer
<1>7. ~Past(t)
  BY <1>1, <1>2, TransferAssumption DEF OfOne, Barred
<1>8. Barred(t)'
  BY <1>2, <1>4, <1>5 DEF Barred
<1>9. ~LeftPods(t)'
  BY <1>4, <1>7, PodsKept DEF Past, LeftPods
<1>10. t \notin followed => copied[t] = 0
  BY <1>3, <1>7 DEF Past
<1>11. Alone(t)'
  BY <1>2, <1>9, <1>10 DEF Alone, AfterServer
<1>12. Counted(t)'
  BY <1>1, <1>2, <1>3 DEF OfOne, Counted, AfterEndpoint, AfterStunnel, AfterCopies, AfterClientEnd, AfterServer
<1>13. Cleaned(t)'
  BY <1>2 DEF Cleaned
<1> QED
  BY <1>4, <1>6, <1>8, <1>11, <1>12, <1>13 DEF OfOne

\* There is no server pod yet, or all has been followed to the end before.
LEMMA RsyncServerKept ==
  ASSUME NEW t \in Transfers, IInv, Apart(t), RsyncServer(t)
  PROVE  OfOne(t)'
<1> USE DEF RsyncServer, Go
<1>1. OfOne(t)
  BY DEF IInv
<1>2. \A n \in Server(t) : Made(n, t)
  BY DEF Made
<1>3. \A n \in Server(t) : n.by = t /\ IsOf(n, t)
  BY <1>2, MadeIsOf
<1>4. objects' = objects \cup Server(t)
  BY <1>2, <1>3, ReconcileAdds DEF IInv, Types
<1>5. Own(t)' = Own(t) \cup Server(t)
  BY <1>3, <1>4, AddsOwn
<1>6. pc[t] = "rsyncServer" /\ pc'[t] = "waitServer"
  BY DEF IInv, Types, Sorts
<1>7. UNCHANGED <<toCopy, gcAt, attempts, copied, followed>>
  OBVIOUS
<1>8. PICK known \in {<<t, attempts[t]>>} \cup
                     (IF Exists(ServerPod(t)) THEN {password[t]} ELSE {}) :
        password' = [u \in Transfers |->
          IF Key(ServerPod(u)) = Key(ServerPod(t)) THEN known ELSE password[u]]
  OBVIOUS
<1>9. password'[t] = known
  BY <1>8
<1>10. Placed(t)'
  BY <1>1, <1>5, <1>6 DEF OfOne, Placed, AfterClaim, AfterEndpoint, AfterStunnel, AfterCopies, AfterClientEnd, AfterServer
<1>11. Barred(t)'
  BY <1>6, <1>10 DEF Barred, Placed, AfterCopies, AfterClientEnd, AfterServer
<1>12. ~LeftPods(t)
  BY <1>1, <1>6 DEF OfOne, Alone
<1>13. OwnPods(t)' = {}
  BY <1>5, <1>12, ServerPodForm DEF OwnPods, LeftPods
<1>14. t \notin followed => known = <<t, attempts[t]>>
  <2>1. Exists(ServerPod(t)) => ServerPod(t) \in objects
    BY <1>2, ServerPodForm, ExistsOwn DEF IInv, Types
  <2>2. ServerPod(t) \in objects => ServerPod(t) \in Own(t)
    BY ServerPodForm DEF Own
  <2> QED
    BY <1>8, <1>12, <2>1, <2>2 DEF LeftPods
<1>16. Alone(t)'
  BY <1>1, <1>6, <1>7, <1>9, <1>13, <1>14 DEF OfOne, Alone
<1>17. Counted(t)'
  BY <1>1, <1>6, <1>7 DEF OfOne, Counted, AfterEndpoint, AfterStunnel, AfterCopies, AfterClientEnd, AfterServer
<1>18. Cleaned(t)'
  BY <1>6 DEF Cleaned
<1> QED
  BY <1>4, <1>10, <1>11, <1>16, <1>17, <1>18 DEF OfOne

LEMMA RsyncClientKept ==
  ASSUME NEW t \in Transfers, IInv, Apart(t), RsyncClient(t)
  PROVE  OfOne(t)'
<1> USE DEF RsyncClient, Go, peers
<1>1. OfOne(t) /\ Types
  BY DEF IInv
<1>2. \A n \in Client(t) : n.by = t /\ IsOf(n, t)
  BY <1>1, ClientForm, MadeIsOf
<1>3. objects' = objects \cup Client(t)
  BY <1>1, <1>2, ClientForm, ReconcileAdds DEF Types
<1>4. Own(t)' = Own(t) \cup Client(t)
  BY <1>2, <1>3, AddsOwn
<1>5. pc[t] = "rsyncClient" /\ pc'[t] = "follow"
  BY DEF IInv, Types, Sorts
<1>6. UNCHANGED <<peers, toCopy, gcAt, attempts, copied, followed>>
  OBVIOUS
<1>7. Placed(t)'
  BY <1>1, <1>4, <1>5 DEF OfOne, Placed, AfterClaim, AfterEndpoint, AfterStunnel, AfterCopies, AfterClientEnd, AfterServer
<1>8. Barred(t)'
  BY <1>5, <1>7 DEF Barred, Placed, AfterCopies, AfterClientEnd, AfterServer
<1>9. OwnPods(t) = {}
  BY <1>1, <1>5 DEF OfOne, Alone
<1>10. OwnPods(t)' = {ClientPod(t, attempts[t])}
  BY <1>1, <1>4, <1>9, ClientForm DEF OwnPods
<1>11. attempts' = attempts /\ ClientPod(t, attempts[t])' = ClientPod(t, attempts[t])
  BY <1>6 DEF ClientPod, OnSource, Object
<1>12. Alone(t)'
  BY <1>1, <1>5, <1>6, <1>10, <1>11 DEF OfOne, Alone, AfterServer
<1>13. Counted(t)'
  BY <1>1, <1>5, <1>6 DEF OfOne, Counted, AfterEndpoint, AfterStunnel, AfterCopies, AfterClientEnd, AfterServer
<1>14. Cleaned(t)'
  BY <1>5 DEF Cleaned
<1> QED
  BY <1>3, <1>7, <1>8, <1>12, <1>13, <1>14 DEF OfOne

LEMMA FollowKept ==
  ASSUME NEW t \in Transfers, IInv, Apart(t), FollowClientLogs(t)
  PROVE  OfOne(t)'
<1> USE DEF FollowClientLogs, Go, peers
<1>1. OfOne(t)
  BY DEF IInv
<1>2. pc[t] = "follow" /\ pc'[t] = "gc" /\ t \in followed'
  BY DEF IInv, Types, Sorts
<1>3. Own(t)' = Own(t)
  BY DEF Own
<1>4. Placed(t)'
  BY <1>1, <1>2, <1>3 DEF OfOne, Placed, AfterClaim, AfterEndpoint, AfterStunnel, AfterCopies, AfterClientEnd, AfterServer
<1>5. Barred(t)'
  BY <1>1, <1>2, <1>3 DEF OfOne, Barred, Placed, AfterCopies, AfterClientEnd, AfterServer
<1>6. Alone(t)'
  BY <1>2 DEF Alone, AfterServer
<1>7. gcAt[t] = 1 /\ gcAt' = gcAt
  BY <1>1, <1>2 DEF OfOne, Counted, AfterEndpoint, AfterStunnel, AfterCopies, AfterClientEnd, AfterServer
<1>8. Counted(t)'
  BY <1>1, <1>2 DEF OfOne, Counted, AfterEndpoint, AfterStunnel, AfterCopies, AfterClientEnd, AfterServer
<1>9. \A i \in 1..Len(GCSteps) : ~(i < 1)
  BY GCStepsCover
<1>10. Cleaned(t)'
  BY <1>2, <1>7, <1>9 DEF Cleaned
<1> QED
  BY <1>3, <1>4, <1>5, <1>6, <1>8, <1>10 DEF OfOne

\* garbageCollect: one kind goes, and it is gone from then on.
LEMMA CollectKept ==
  ASSUME NEW t \in Transfers, IInv, Apart(t), Collect(t)
  PROVE  OfOne(t)'
<1>1. OfOne(t)
  BY DEF IInv
<1>2. PICK g : g = gcAt[t]
  OBVIOUS
<1>3. /\ g \in 1..8 /\ pc[t] = "gc"
      /\ \/ g = 8 /\ pc'[t] = "done" /\ gcAt'[t] = g
         \/ g < 8 /\ pc'[t] = "gc" /\ gcAt'[t] = g + 1
      /\ GCSteps[g][1] \in {"source", "dest"} /\ GCSteps[g][2] # "pvc"
      /\ objects' = objects \ Found(GCSteps[g][1], NsOf(GCSteps[g][1], t), GCSteps[g][2], Source[t])
  BY <1>2, CollectForm DEF IInv
<1> DEFINE going == {o \in Own(t) : o.cluster = GCSteps[g][1] /\ o.kind = GCSteps[g][2]}
<1>4. objects' = objects \ going
  BY <1>3, FindsOnlyOwn DEF IInv, Types
<1>5. UNCHANGED <<password, toCopy, attempts, copied, followed>>
  BY DEF Collect
<1>8. Own(t)' = Own(t) \ going
  BY <1>4 DEF Own
<1>9. Claim(t) \in Own(t)'
  <2>1. Claim(t) \in Own(t)
    BY <1>1, <1>3 DEF OfOne, Placed, AfterClaim
  <2>2. Claim(t).kind = "pvc"
    BY SetUp
  <2> QED
    BY <1>3, <1>8, <2>1, <2>2
<1>10. Placed(t)'
  BY <1>3, <1>9 DEF Placed, AfterEndpoint, AfterStunnel, AfterCopies, AfterClientEnd, AfterServer
<1>11. t \in followed /\ followed' = followed
  BY <1>1, <1>3, <1>5 DEF OfOne, Cleaned
<1>12. \A i \in 1..8 : i < g \/ i = g => Gone(t, i)'
  <2> TAKE i \in 1..8
  <2>1. CASE i < g
    BY <1>1, <1>2, <1>3, <1>8, <2>1, GCStepsCover DEF OfOne, Cleaned, Gone
  <2>2. CASE i = g
    BY <1>8, <2>2 DEF Gone
  <2> QED
    BY <2>1, <2>2
<1>13. OwnPods(t)' = {}
  <2>1. Gone(t, 1)'
    BY <1>3, <1>12
  <2> QED
    BY <2>1, GCStepsCover DEF Gone, OwnPods
<1>14. Barred(t)'
  BY <1>11, <1>13 DEF Barred, Past, LeftPods
<1>15. Alone(t)'
  BY <1>3, <1>11 DEF Alone, AfterServer
<1>16. Counted(t)'
  BY <1>1, <1>3, <1>5 DEF OfOne, Counted, AfterEndpoint, AfterStunnel, AfterCopies, AfterClientEnd, AfterServer
<1>17. Cleaned(t)'
  BY <1>3, <1>11, <1>12, GCStepsCover DEF Cleaned
<1> QED
  BY <1>10, <1>14, <1>15, <1>16, <1>17 DEF OfOne

LEMMA StepKept ==
  ASSUME NEW t \in Transfers, IInv, Apart(t), Start(t) \/ Step(t) \/ Fail(t)
  PROVE  OfOne(t)'
<1>1. CASE Start(t)
  BY <1>1, StartKept DEF Start
<1>2. CASE Fail(t) \/ CopyRefused(t)
  BY <1>2, FailedKept DEF Fail, CopyRefused
<1>3. CASE CreatePVC(t)
  BY <1>3, CreatePVCKept
<1>4. CASE CreateEndpoint(t)
  BY <1>4, CreateEndpointKept
<1>5. CASE WaitForEndpoint(t) \/ WaitForServer(t)
  BY <1>5, WaitsKept DEF WaitForEndpoint, WaitForServer
<1>6. CASE StunnelServer(t)
  BY <1>6, StunnelServerKept
<1>7. CASE ListSecrets(t)
  BY <1>7, ListSecretsKept DEF ListSecrets
<1>8. CASE CopySecret(t)
  BY <1>8, CopySecretKept
<1>9. CASE SecretsCopied(t)
  BY <1>9, SecretsCopiedKept DEF SecretsCopied
<1>10. CASE StunnelClient(t)
  BY <1>10, StunnelClientKept
<1>11. CASE RsyncServer(t)
  BY <1>11, RsyncServerKept
<1>12. CASE RsyncClient(t)
  BY <1>12, RsyncClientKept
<1>13. CASE FollowClientLogs(t)
  BY <1>13, FollowKept DEF FollowClientLogs
<1>14. CASE Collect(t)
  BY <1>14, CollectKept
<1> QED
  BY <1>1, <1>2, <1>3, <1>4, <1>5, <1>6, <1>7, <1>8, <1>9, <1>10, <1>11, <1>12, <1>13, <1>14 DEF Step

\* The router's step, and none, touch no invocation.
LEMMA IdleKept ==
  ASSUME IInv, UNCHANGED <<most, host, password, objects, pc, toCopy, gcAt, attempts, copied, followed>>,
         admitted' \subseteq Transfers
  PROVE  IInv'
<1>1. Types'
  BY DEF IInv, Types, Sorts, AllShaped, AllListed
<1>2. \A t \in Transfers : Untouched(t)
  BY DEF Untouched, Own
<1> QED
  BY <1>1, <1>2, Frame DEF IInv

-----------------------------------------------------------------------------

LEMMA InitInv == Init => IInv
<1> SUFFICES ASSUME Init PROVE IInv
  OBVIOUS
<1>1. Types
  BY GCStepsCover DEF Init, Types, Sorts, AllShaped, AllListed, Steps
<1>2. ASSUME NEW t \in Transfers
      PROVE  OfOne(t)
  <2>1. /\ pc[t] = "idle" /\ toCopy[t] = {} /\ gcAt[t] = 1 /\ attempts[t] = 0 /\ copied[t] = 0
        /\ Own(t) = {} /\ OwnPods(t) = {} /\ followed = {}
    BY <1>2 DEF Init, Own, OwnPods
  <2>2. ~LeftPods(t) /\ ~Past(t)
    BY <2>1 DEF LeftPods, Past
  <2>3. Barred(t) /\ Cleaned(t)
    BY <2>1, <2>2 DEF Barred, Cleaned
  <2>4. Placed(t)
    BY <2>1 DEF Placed, AfterClaim, AfterEndpoint, AfterStunnel, AfterCopies, AfterClientEnd, AfterServer
  <2>5. Alone(t)
    BY <2>1 DEF Alone, AfterServer
  <2>6. Counted(t)
    BY <2>1 DEF Counted, AfterEndpoint, AfterStunnel, AfterCopies, AfterClientEnd, AfterServer
  <2> QED
    BY <2>3, <2>4, <2>5, <2>6 DEF OfOne
<1> QED
  BY <1>1, <1>2 DEF IInv

LEMMA NextInv == IInv /\ [Next]_vars => IInv'
<1> SUFFICES ASSUME IInv, [Next]_vars PROVE IInv'
  OBVIOUS
<1>1. ASSUME NEW t \in Transfers, Start(t) \/ Step(t) \/ Fail(t)
      PROVE  IInv'
  <2>1. Orderly(t)
    BY <1>1, StepOrderly DEF IInv
  <2>2. ASSUME NEW u \in Transfers, Apart(u)
        PROVE  OfOne(u)'
    <3>1. CASE u = t
      BY <1>1, <2>2, <3>1, StepKept
    <3>2. CASE u # t
      BY <2>1, <2>2, <3>2, Frame DEF Orderly, Others, IInv
    <3> QED
      BY <3>1, <3>2
  <2> QED
    BY <2>1, <2>2 DEF Orderly, IInv
<1>2. ASSUME NEW t \in Transfers, Admit(t)
      PROVE  IInv'
  BY <1>2, IdleKept DEF Admit, IInv, Types, Sorts
<1>3. CASE UNCHANGED vars
  BY <1>3, IdleKept DEF vars, peers, IInv, Types, Sorts
<1> QED
  BY <1>1, <1>2, <1>3 DEF Next, Finished

\* The inductive invariant holds, for any invocations between any namespaces.
THEOREM Invariance == Spec => []IInv
BY InitInv, NextInv, PTL DEF Spec

\* Types, and whose every object is.
THEOREM TypeCorrect == Spec => []TypeOK
<1>1. IInv => TypeOK
  <2> SUFFICES ASSUME IInv PROVE TypeOK
    OBVIOUS
  <2>1. ASSUME NEW o \in objects
        PROVE  /\ o.by \in Transfers
               /\ o.kind \in Kinds
               /\ \/ o.cluster = "source" /\ o.ns = FromNs[o.by]
                  \/ o.cluster = "dest" /\ o.ns = ToNs[o.by]
               /\ o.label = IF o.kind = "pvc" THEN "none" ELSE Source[o.by]
    <3>1. o.by \in Transfers /\ IsOf(o, o.by)
      BY DEF IInv, Types, AllShaped
    <3> QED
      BY <3>1, IsOfFields DEF NsOf, LabelOf
  <2>2. ASSUME NEW t \in Transfers, NEW s \in toCopy[t]
        PROVE  s.kind = "secret" /\ Alike(s.by, t)
    <3>1. PICK u \in Transfers, c \in Listable : Namesake(u, t) /\ s = CertSecret(u, c)
      BY DEF IInv, Types, AllListed
    <3> QED
      BY <3>1, ListableForm DEF Namesake, Alike
  <2> QED
    BY <2>1, <2>2 DEF IInv, Types, Sorts, TypeOK
<1> QED
  BY <1>1, Invariance, PTL

\* garbageCollect leaves the destination claim and nothing else.
THEOREM OnlyClaimLeft == Spec => []DoneLeavesOnlyClaim
<1>1. IInv => DoneLeavesOnlyClaim
  <2> SUFFICES ASSUME IInv, NEW t \in Transfers, Apart(t), pc[t] = "done"
               PROVE  /\ \A o \in objects : o.by = t => o.kind = "pvc"
                      /\ Exists(Claim(t))
    BY DEF DoneLeavesOnlyClaim
  <2>1. OfOne(t)
    BY DEF IInv
  <2>2. ASSUME NEW o \in objects, o.by = t
        PROVE  o.kind = "pvc"
    <3>1. o \in Own(t) /\ IsOf(o, t)
      BY <2>2 DEF Own, IInv, Types, AllShaped
    <3>2. \A i \in 1..8 : ~(o.cluster = GCSteps[i][1] /\ o.kind = GCSteps[i][2])
      BY <2>1, <3>1, GCStepsCover DEF OfOne, Cleaned, Gone
    <3> QED
      BY <3>1, <3>2, GCStepsCover
  <2>3. Claim(t) \in objects
    BY <2>1 DEF OfOne, Placed, AfterClaim, Own
  <2> QED
    BY <2>2, <2>3 DEF Exists
<1> QED
  BY <1>1, Invariance, PTL

\* The peers of a running client are in place.
THEOREM PeersStayInPlace == Spec => []PeersInPlace
<1>1. IInv => PeersInPlace
  <2> SUFFICES ASSUME IInv, NEW t \in Transfers, Apart(t), pc[t] \in {"rsyncClient", "follow"}
               PROVE  /\ Endpoint(t) \cup Stunnel(t) \cup Server(t) \cup ClientEnd(t) \subseteq objects
                      /\ \A c \in Certs : CopyOf(t, OnDest(t, "secret", <<Target[t], c>>)) \in objects
    BY DEF PeersInPlace
  <2>1. Placed(t)
    BY DEF IInv, OfOne
  <2>2. /\ Endpoint(t) \cup Stunnel(t) \cup Server(t) \cup ClientEnd(t) \subseteq Own(t)
        /\ \A c \in Certs : Copy(t, c) \in Own(t)
    BY <2>1 DEF Placed, AfterEndpoint, AfterStunnel, AfterCopies, AfterClientEnd, AfterServer
  <2> QED
    BY <2>2 DEF Own, Copy, CertSecret
<1> QED
  BY <1>1, Invariance, PTL

\* The query for the client pod finds one, that of this attempt.
THEOREM OneClientPodFound == Spec => []OneClientPod
<1>1. IInv => OneClientPod
  <2> SUFFICES ASSUME IInv, NEW t \in Transfers, Apart(t), pc[t] = "follow"
               PROVE  ClientPods(t) = {o \in Client(t) : o.kind = "pod"}
    BY DEF OneClientPod
  <2>1. ClientPods(t) = OwnPods(t)
    BY FindsOnlyOwn DEF IInv, Types, ClientPods, OwnPods, NsOf
  <2>2. OwnPods(t) = {ClientPod(t, attempts[t])}
    BY DEF IInv, OfOne, Alone
  <2>3. Types
    BY DEF IInv
  <2> QED
    BY <2>1, <2>2, <2>3, ClientForm
<1> QED
  BY <1>1, Invariance, PTL

\* One attempt gets past the secrets, until one is followed to the end.
THEOREM SecretsCopiedOnce == Spec => []CopiedOnce
<1>1. IInv => CopiedOnce
  BY DEF IInv, OfOne, Alone, CopiedOnce
<1> QED
  BY <1>1, Invariance, PTL

\* Server and client have the password of this attempt.
THEOREM SamePassword == Spec => []PasswordsAgree
<1>1. IInv => PasswordsAgree
  BY DEF IInv, OfOne, Alone, AfterServer, PasswordsAgree
<1> QED
  BY <1>1, Invariance, PTL

\* Whatever the claims are called and wherever they are, no step takes away what
\* is of a transfer told apart from the one that makes it, nor a claim.
THEOREM NothingOfOthersGoes == Spec => CollectsOnlyOwn
<1>1. ASSUME IInv, [Next]_vars
      PROVE  [\A o \in objects \ objects' :
                /\ o.kind # "pvc"
                /\ \E t \in Transfers :
                     /\ Alike(t, o.by)
                     /\ \/ pc[t] = "gc" /\ <<pc[t], gcAt[t]>>' # <<pc[t], gcAt[t]>>
                        \/ t # o.by /\ \E n \in objects' : n.by = t /\ Key(n) = Key(o)]_vars
  <2>1. ASSUME NEW t \in Transfers, Start(t) \/ Step(t) \/ Fail(t), NEW o \in objects \ objects'
        PROVE  May(t, o)
    BY <1>1, <2>1, StepOrderly DEF IInv, Orderly
  <2>2. ASSUME NEW t \in Transfers, Admit(t)
        PROVE  objects' = objects
    BY <2>2 DEF Admit
  <2> QED
    BY <1>1, <2>1, <2>2 DEF Next, Finished, May
<1> QED
  BY <1>1, Invariance, PTL DEF Spec, CollectsOnlyOwn

=============================================================================
