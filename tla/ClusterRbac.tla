----------------------------- MODULE ClusterRbac -----------------------------
(***************************************************************************)
(* The filter of cluster-scoped RBAC objects: of those that were listed,   *)
(* export writes the ones that the service accounts it has listed use.     *)
(*                                                                         *)
(* An object is a record with its kind, its namespace ("" if it has none)  *)
(* and its name; a binding has subjects and a role as well, security       *)
(* context constraints have the service accounts that their users name.    *)
(***************************************************************************)
EXTENDS Sequences

AdmittedClusterScopeResources ==
  <<"ClusterRoleBinding", "ClusterRole", "SecurityContextConstraints">>

ClusterScopeKinds == {"ClusterRoleBinding", "ClusterRole", "SecurityContextConstraints"}

OfKind(objects, kind) == {o \in objects : o.kind = kind}

Ref(kind, name) == [kind |-> kind, name |-> name]

Subject == [kind : STRING, ns : STRING, name : STRING]

Account(ns, name) == [kind |-> "ServiceAccount", ns |-> ns, name |-> name]

\* Variant: an account of any namespace will do.
AnyServiceAccountNamed(objects, ref) ==
  \E sa \in OfKind(objects, "ServiceAccount") : sa.name = ref.name

AnyServiceAccountInNamespace(objects, ref) ==
  \E sa \in OfKind(objects, "ServiceAccount") : sa.name = ref.name /\ sa.ns = ref.ns

AcceptClusterRoleBinding(objects, crb) ==
  \E s \in crb.subjects :
    s.kind = "ServiceAccount" /\ AnyServiceAccountInNamespace(objects, s)

FilteredClusterRoleBindings(objects) ==
  {crb \in OfKind(objects, "ClusterRoleBinding") : AcceptClusterRoleBinding(objects, crb)}

AcceptClusterRole(objects, cr) ==
  \E crb \in FilteredClusterRoleBindings(objects) : crb.role = Ref("ClusterRole", cr.name)

\* The role by which OpenShift grants the use of security context constraints.
SccSystemName(scc) == "system:openshift:scc:" \o scc.name

AcceptSecurityContextConstraints(objects, scc) ==
  \/ \E crb \in FilteredClusterRoleBindings(objects) :
       \/ crb.role = Ref("SecurityContextConstraints", scc.name)
       \/ crb.role = Ref("ClusterRole", SccSystemName(scc))
  \/ \E u \in scc.users : AnyServiceAccountInNamespace(objects, u)

FilterRbacResources(objects) ==
  {o \in objects : o.kind \notin ClusterScopeKinds}
  \cup FilteredClusterRoleBindings(objects)
  \cup {o \in OfKind(objects, "ClusterRole") : AcceptClusterRole(objects, o)}
  \cup {o \in OfKind(objects, "SecurityContextConstraints") :
          AcceptSecurityContextConstraints(objects, o)}

=============================================================================
