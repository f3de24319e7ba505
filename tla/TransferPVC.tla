----------------------------- MODULE TransferPVC -----------------------------
(***************************************************************************)
(* transfer-pvc: one invocation per volume claim, each of which sets up an *)
(* rsync server behind an endpoint on the destination cluster and an rsync *)
(* client on the source cluster, follows the client's log and deletes what *)
(* it has created.  Invocations run side by side; one that fails, or is    *)
(* killed, leaves everything where it is and may be started again.         *)
(*                                                                         *)
(* Objects are found again by their names and by the one label that tells  *)
(* transfers apart, app.konveyor.io/created-for-pvc.  What the pvc-transfer*)
(* library creates is modelled as far as this command depends on it.       *)
(***************************************************************************)
EXTENDS Naturals, FiniteSets, Sequences

CONSTANTS Transfers,     \* the invocations
          FromNs, ToNs,  \* [Transfers -> namespace on the source, destination]
          Source,        \* [Transfers -> getValidatedResourceName of the source PVC]
          Target,        \* [Transfers -> the same of the destination PVC]
          Certs,         \* the certificate secrets of a stunnel server
          Cases          \* the hosts the endpoints may have, with a bound for each:
                         \* how often the invocations are started

(* The invocations are any: nothing compares the claims of one with those  *)
(* of another.                                                             *)
ASSUME TransferAssumption ==
  /\ \A c \in Cases : DOMAIN c.host = Transfers /\ c.most \in [Transfers -> Nat]
  /\ Certs # {}
  /\ Certs \cap {"rsync-server", "rsync-client"} = {}

\* The label, or the names that come from the claims, do not tell t from u in a
\* namespace they share: claims of one name from two namespaces go into one, one
\* claim goes to two places, or two claims to one.
Alike(t, u) ==
  \/ FromNs[t] = FromNs[u] /\ Source[t] = Source[u]
  \/ ToNs[t] = ToNs[u] /\ (Source[t] = Source[u] \/ Target[t] = Target[u])
Apart(t) == \A u \in Transfers : Alike(t, u) => u = t

VARIABLES most,     \* the bound
          host,     \* the host of each one's endpoint
          objects,  \* what there is on the two clusters
          admitted, \* those whose endpoint, as they have set it up, the router serves
          password, \* whose rsync password, of which attempt, each one's server knows
          pc,       \* where each invocation stands
          toCopy,   \* the listed secrets it has still to copy
          gcAt,     \* the next step of its garbageCollect
          attempts, \* how often it has been started
          copied,   \* history: its attempts that got past the secrets
          followed  \* history: those with an attempt that followed its client to the end

peers == <<most, host, admitted, password>>
vars == <<peers, objects, pc, toCopy, gcAt, attempts, copied, followed>>

Object(cluster, ns, kind, name, label, by) ==
  [cluster |-> cluster, ns |-> ns, kind |-> kind, name |-> name, label |-> label, by |-> by]

OnSource(t, kind, name) == Object("source", FromNs[t], kind, name, Source[t], t)
OnDest(t, kind, name)   == Object("dest", ToNs[t], kind, name, Source[t], t)

\* An object is identified by its kind and its name in its namespace.
Key(o) == <<o.cluster, o.ns, o.kind, o.name>>
Exists(o) == \E p \in objects : Key(p) = Key(o)

\* The client or the library creates an object or updates the one there is.
Reconcile(new) ==
  objects' = {o \in objects : \A n \in new : Key(o) # Key(n)} \cup new

Claim(t)    == [OnDest(t, "pvc", <<Target[t]>>) EXCEPT !.label = "none"]
Route(t)    == OnDest(t, "endpoint", <<Target[t]>>)
Endpoint(t) == {Route(t), OnDest(t, "service", <<Target[t]>>)}
Stunnel(t)  == {OnDest(t, "config", <<Target[t]>>)} \cup
               {OnDest(t, "secret", <<Target[t], c>>) : c \in Certs}
ServerPod(t) == OnDest(t, "pod", <<Target[t]>>)
Server(t)   == {ServerPod(t), OnDest(t, "secret", <<Target[t], "rsync-server">>)}
ClientEnd(t) == {OnSource(t, "config", <<Source[t]>>)}
\* The pod of a client has a new name each time.
Client(t)   == {OnSource(t, "pod", <<Source[t], t, attempts[t]>>),
                OnSource(t, "secret", <<Source[t], "rsync-client">>)}

\* The objects a query by label and namespace finds.
Found(cluster, ns, kind, label) ==
  {o \in objects : o.cluster = cluster /\ o.ns = ns /\ o.kind = kind /\ o.label = label}

Init ==
  /\ \E c \in Cases : most = c.most /\ host = c.host
  /\ objects = {}
  /\ admitted = {}
  /\ password = [t \in Transfers |-> <<t, 0>>]
  /\ pc = [t \in Transfers |-> "idle"]
  /\ toCopy = [t \in Transfers |-> {}]
  /\ gcAt = [t \in Transfers |-> 1]
  /\ attempts = [t \in Transfers |-> 0]
  /\ copied = [t \in Transfers |-> 0]
  /\ followed = {}

Go(t, from, to) ==
  /\ pc[t] = from
  /\ pc' = [pc EXCEPT ![t] = to]

-----------------------------------------------------------------------------
\* The command is run, for the first time or again after it failed.
Start(t) ==
  /\ pc[t] \in {"idle", "failed"}
  /\ attempts[t] < most[t]
  /\ attempts' = [attempts EXCEPT ![t] = @ + 1]
  /\ pc' = [pc EXCEPT ![t] = "createPVC"]
  /\ toCopy' = [toCopy EXCEPT ![t] = {}]
  /\ gcAt' = [gcAt EXCEPT ![t] = 1]
  /\ UNCHANGED <<peers, objects, copied, followed>>

\* log.Fatal at any step, an error of garbageCollect, or a kill: nothing is
\* cleaned up.
Fail(t) ==
  /\ pc[t] \notin {"idle", "done", "failed"}
  /\ pc' = [pc EXCEPT ![t] = "failed"]
  /\ UNCHANGED <<peers, objects, toCopy, gcAt, attempts, copied, followed>>

\* A destination PVC that is already there is taken as it is.
CreatePVC(t) ==
  /\ Go(t, "createPVC", "createEndpoint")
  /\ objects' = IF Exists(Claim(t)) THEN objects ELSE objects \cup {Claim(t)}
  /\ UNCHANGED <<peers, toCopy, gcAt, attempts, copied, followed>>

\* An endpoint that is gone, or is another's now, is not served any more.
Withdraw == admitted' = {u \in admitted : Route(u) \in objects'}

CreateEndpoint(t) ==
  /\ Go(t, "createEndpoint", "waitEndpoint")
  /\ Reconcile(Endpoint(t))
  /\ Withdraw
  /\ UNCHANGED <<most, host, password, toCopy, gcAt, attempts, copied, followed>>

\* The router serves one endpoint of a host: a second one with that host is
\* only served when the first is gone.
Admit(t) ==
  /\ t \notin admitted
  /\ Route(t) \in objects
  /\ \A u \in admitted : host[u] # host[t]
  /\ admitted' = admitted \cup {t}
  /\ UNCHANGED <<most, host, password, objects, pc, toCopy, gcAt, attempts, copied, followed>>

Healthy(t) ==
  /\ \E u \in admitted : Key(Route(u)) = Key(Route(t))
  /\ \A o \in Endpoint(t) : Exists(o)

\* Variant: the endpoint is waited for until the server behind it answers.
WaitForEndpointAndServer(t) ==
  /\ Go(t, "waitEndpoint", "stunnelServer")
  /\ Healthy(t)
  /\ \A o \in Server(t) : Exists(o)
  /\ UNCHANGED <<peers, objects, toCopy, gcAt, attempts, copied, followed>>

\* Polls until the endpoint is healthy, for ever if need be.
WaitForEndpoint(t) ==
  /\ Go(t, "waitEndpoint", "stunnelServer")
  /\ Healthy(t)
  /\ UNCHANGED <<peers, objects, toCopy, gcAt, attempts, copied, followed>>

StunnelServer(t) ==
  /\ Go(t, "stunnelServer", "listSecrets")
  /\ Reconcile(Stunnel(t))
  /\ UNCHANGED <<peers, toCopy, gcAt, attempts, copied, followed>>

\* The list is by label: it finds what an earlier attempt has left, too, and
\* what is of a claim with the same name.
ListSecrets(t) ==
  /\ Go(t, "listSecrets", "copySecrets")
  /\ toCopy' = [toCopy EXCEPT ![t] = Found("dest", ToNs[t], "secret", Source[t])]
  /\ UNCHANGED <<peers, objects, gcAt, attempts, copied, followed>>

\* Variant: the copy keeps the namespace of the destination.
CopyOfSameNs(t, s) == Object("source", s.ns, s.kind, s.name, s.label, t)

CopyOf(t, s) == Object("source", FromNs[t], s.kind, s.name, s.label, t)

\* Variant: a secret that is already on the source cluster is no error.
RefusedNever(t, s) == FALSE

Refused(t, s) == Exists(CopyOf(t, s))

CopySecret(t) ==
  /\ pc[t] = "copySecrets"
  /\ \E s \in toCopy[t] :
       /\ ~Refused(t, s)
       /\ objects' = objects \cup {CopyOf(t, s)}
       /\ toCopy' = [toCopy EXCEPT ![t] = @ \ {s}]
  /\ UNCHANGED <<peers, pc, gcAt, attempts, copied, followed>>

\* Unlike the PVC, a secret that is already there ends the command.
CopyRefused(t) ==
  /\ pc[t] = "copySecrets"
  /\ \E s \in toCopy[t] : Refused(t, s)
  /\ pc' = [pc EXCEPT ![t] = "failed"]
  /\ UNCHANGED <<peers, objects, toCopy, gcAt, attempts, copied, followed>>

SecretsCopied(t) ==
  /\ Go(t, "copySecrets", "stunnelClient")
  /\ toCopy[t] = {}
  /\ copied' = [copied EXCEPT ![t] = @ + 1]
  /\ UNCHANGED <<peers, objects, toCopy, gcAt, attempts, followed>>

StunnelClient(t) ==
  /\ Go(t, "stunnelClient", "rsyncServer")
  /\ Reconcile(ClientEnd(t))
  /\ UNCHANGED <<peers, toCopy, gcAt, attempts, copied, followed>>

\* Every attempt draws a password of its own; whether a server that is already
\* running learns of it is the library's affair.
RsyncServer(t) ==
  /\ Go(t, "rsyncServer", "waitServer")
  /\ Reconcile(Server(t))
  /\ \E known \in {<<t, attempts[t]>>} \cup
                  (IF Exists(ServerPod(t)) THEN {password[t]} ELSE {}) :
       password' = [u \in Transfers |->
         IF Key(ServerPod(u)) = Key(ServerPod(t)) THEN known ELSE password[u]]
  /\ UNCHANGED <<most, host, admitted, toCopy, gcAt, attempts, copied, followed>>

\* Polls the server for five minutes; that they are over is a Fail.
WaitForServer(t) ==
  /\ Go(t, "waitServer", "rsyncClient")
  /\ \A o \in Server(t) : Exists(o)
  /\ UNCHANGED <<peers, objects, toCopy, gcAt, attempts, copied, followed>>

\* A running pod must have the source PVC mounted; that none does is a Fail.
RsyncClient(t) ==
  /\ Go(t, "rsyncClient", "follow")
  /\ Reconcile(Client(t))
  /\ UNCHANGED <<peers, toCopy, gcAt, attempts, copied, followed>>

ClientPods(t) == Found("source", FromNs[t], "pod", Source[t])

\* followClientLogs returns nil (LogFollow): it has found exactly one client
\* pod and seen the end of its log.
FollowClientLogs(t) ==
  /\ Go(t, "follow", "gc")
  /\ Cardinality(ClientPods(t)) = 1
  /\ followed' = followed \cup {t}
  /\ UNCHANGED <<peers, objects, toCopy, gcAt, attempts, copied>>

-----------------------------------------------------------------------------
\* The calls of garbageCollect in their order.
GCSteps == << <<"source", "pod">>, <<"source", "config">>, <<"source", "secret">>,
              <<"dest", "pod">>, <<"dest", "config">>, <<"dest", "secret">>,
              <<"dest", "endpoint">>, <<"dest", "service">> >>

\* Variant: everything of the kind in the namespace is deleted.
CollectedAll(t, cluster, kind) ==
  {o \in objects : /\ o.cluster = cluster
                   /\ o.ns = (IF cluster = "source" THEN FromNs[t] ELSE ToNs[t])
                   /\ o.kind = kind}

\* Variant: the calls on the destination are made in the other namespace.
CollectedElsewhere(t, cluster, kind) == Found(cluster, FromNs[t], kind, Source[t])

Collected(t, cluster, kind) ==
  Found(cluster, IF cluster = "source" THEN FromNs[t] ELSE ToNs[t], kind, Source[t])

Collect(t) ==
  /\ pc[t] = "gc"
  /\ objects' = objects \ Collected(t, GCSteps[gcAt[t]][1], GCSteps[gcAt[t]][2])
  /\ Withdraw
  /\ IF gcAt[t] = Len(GCSteps)
       THEN pc' = [pc EXCEPT ![t] = "done"] /\ UNCHANGED gcAt
       ELSE gcAt' = [gcAt EXCEPT ![t] = @ + 1] /\ UNCHANGED pc
  /\ UNCHANGED <<most, host, password, toCopy, attempts, copied, followed>>

-----------------------------------------------------------------------------
Step(t) == \/ CreatePVC(t) \/ CreateEndpoint(t) \/ WaitForEndpoint(t)
           \/ StunnelServer(t) \/ ListSecrets(t)
           \/ CopySecret(t) \/ CopyRefused(t) \/ SecretsCopied(t)
           \/ StunnelClient(t) \/ RsyncServer(t) \/ WaitForServer(t)
           \/ RsyncClient(t) \/ FollowClientLogs(t) \/ Collect(t)

\* The five minutes of the poll for the server, or for the client pod.
TimeOut(t) == pc[t] \in {"waitServer", "follow"} /\ Fail(t)

\* No invocation is started any more.
Finished ==
  /\ \A t \in Transfers :
       pc[t] = "done" \/ (pc[t] \in {"idle", "failed"} /\ attempts[t] = most[t])
  /\ UNCHANGED vars

Next == \/ \E t \in Transfers : Start(t) \/ Step(t) \/ Fail(t) \/ Admit(t)
        \/ Finished

(* A command goes on once it is started, an endpoint whose host is free is *)
(* served, and the polls with a deadline meet it.                          *)
Fairness ==
  \A t \in Transfers : WF_vars(Step(t)) /\ WF_vars(TimeOut(t)) /\ WF_vars(Admit(t))

Spec == Init /\ [][Next]_vars /\ Fairness

-----------------------------------------------------------------------------
(* Properties.                                                             *)

Steps == {"idle", "createPVC", "createEndpoint", "waitEndpoint", "stunnelServer",
          "listSecrets", "copySecrets", "stunnelClient", "rsyncServer", "waitServer",
          "rsyncClient", "follow", "gc", "done", "failed"}

Kinds == {"pvc", "endpoint", "service", "config", "secret", "pod"}

TypeOK ==
  /\ \E c \in Cases : most = c.most /\ host = c.host
  /\ admitted \subseteq Transfers
  /\ password \in [Transfers -> Transfers \X Nat]
  /\ \A o \in objects :
       /\ o.by \in Transfers
       /\ o.kind \in Kinds
       /\ \/ o.cluster = "source" /\ o.ns = FromNs[o.by]
          \/ o.cluster = "dest" /\ o.ns = ToNs[o.by]
       /\ o.label = IF o.kind = "pvc" THEN "none" ELSE Source[o.by]
  /\ pc \in [Transfers -> Steps]
  /\ \A t \in Transfers : \A s \in toCopy[t] : s.kind = "secret" /\ Alike(s.by, t)
  /\ gcAt \in [Transfers -> 1..Len(GCSteps)]
  /\ attempts \in [Transfers -> Nat]
  /\ copied \in [Transfers -> Nat]
  /\ followed \subseteq Transfers

\* A destination claim, with the data, never goes.  Anything else goes only in
\* a step of garbageCollect, of the transfer that has created it or of one that
\* the label does not tell from it, or when such a one sets up its own under the
\* same name: nothing a transfer does takes away what is of one told apart from
\* it, though all it goes by is a label and the namespace.  Where claims of one
\* name come from two namespaces into one, the first to end collects what the
\* other still needs (transfer-pvc.go:323-327, 595-672).
CollectsOnlyOwn ==
  [][\A o \in objects \ objects' :
       /\ o.kind # "pvc"
       /\ \E t \in Transfers :
            /\ Alike(t, o.by)
            /\ \/ pc[t] = "gc" /\ <<pc[t], gcAt[t]>>' # <<pc[t], gcAt[t]>>
               \/ t # o.by /\ \E n \in objects' : n.by = t /\ Key(n) = Key(o)]_vars

\* A transfer, told apart from the others, that ends well leaves the destination
\* PVC and nothing else, of this attempt or of one that failed before.
DoneLeavesOnlyClaim ==
  \A t \in Transfers : Apart(t) /\ pc[t] = "done" =>
    /\ \A o \in objects : o.by = t => o.kind = "pvc"
    /\ Exists(Claim(t))

\* While the client of a transfer told apart runs, its endpoint, its server and
\* the certificates on both sides are there, whatever other transfers, alike or
\* not, set up and delete meanwhile.
PeersInPlace ==
  \A t \in Transfers : Apart(t) /\ pc[t] \in {"rsyncClient", "follow"} =>
    /\ Endpoint(t) \cup Stunnel(t) \cup Server(t) \cup ClientEnd(t) \subseteq objects
    /\ \A c \in Certs : CopyOf(t, OnDest(t, "secret", <<Target[t], c>>)) \in objects

\* followClientLogs finds one client pod, the one of this attempt; with the
\* pod of a failed attempt beside it, it would wait in vain.
OneClientPod ==
  \A t \in Transfers : Apart(t) /\ pc[t] = "follow" =>
    ClientPods(t) = {o \in Client(t) : o.kind = "pod"}

\* Until one attempt has followed its client to the end, only one attempt ever
\* gets past copying the secrets, since the next finds them on the source
\* cluster: an attempt that fails between the two cannot be made good by
\* running the command again.
CopiedOnce ==
  \A t \in Transfers \ followed : Apart(t) => copied[t] <= 1

\* From the wait for the server on, the server knows the password that this
\* attempt has drawn and its client will give, not that of an attempt before:
\* no attempt gets so far while an earlier one's secrets are on the source
\* cluster.  One that comes after a garbageCollect that has stopped halfway is
\* excepted: it may meet the old server, with all data copied.
PasswordsAgree ==
  \A t \in Transfers \ followed :
    Apart(t) /\ pc[t] \in {"waitServer", "rsyncClient", "follow"} =>
      password[t] = <<t, attempts[t]>>

\* A host is served for another transfer that has failed and left its endpoint,
\* or that may be stuck with it, one like it having taken something away.
HostIsHeld(t) ==
  \E u \in admitted \ {t} : host[u] = host[t] /\ (pc[u] = "failed" \/ ~Apart(u))

\* A transfer that is under way, told apart from the others, ends, though it
\* waits for its endpoint without a deadline: only an endpoint that nobody is
\* sure to take off its host can keep it waiting, and a transfer beside it that
\* goes on cannot.
TransferEnds ==
  \A t \in Transfers : Apart(t) =>
    (pc[t] \notin {"idle", "failed"} ~> (pc[t] \in {"done", "failed"} \/ HostIsHeld(t)))

=============================================================================
