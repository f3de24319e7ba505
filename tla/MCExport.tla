------------------------------- MODULE MCExport -------------------------------
(* A service account, the role that grants the use of some security context  *)
(* constraints, bound to this account and to one of another namespace, those *)
(* constraints, and others that name the account as a user; a kind that is   *)
(* served in two versions and one that is not exported.                      *)
EXTENDS Export

API(kind, name, namespaced, preferred) ==
  [kind |-> kind, name |-> name, namespaced |-> namespaced, preferred |-> preferred]

MCAPIs == <<API("ClusterRoleBinding", "clusterrolebindings", FALSE, TRUE),
            API("ServiceAccount", "serviceaccounts", TRUE, TRUE),
            API("ServiceAccount", "serviceaccounts", TRUE, FALSE),
            API("ClusterRole", "clusterroles", FALSE, TRUE),
            API("SecurityContextConstraints", "securitycontextconstraints", FALSE, TRUE),
            API("Node", "nodes", FALSE, TRUE)>>

\* The routes of gateway.networking.k8s.io: some of them are served in v1, which is
\* preferred, and others in v1alpha2 only.
MCRoutesAPIs == <<API("HTTPRoute", "httproutes", TRUE, TRUE),
                  API("TCPRoute", "tcproutes", TRUE, FALSE)>>

MCRoutes == {[kind |-> "HTTPRoute", ns |-> "app", name |-> "web"],
             [kind |-> "TCPRoute", ns |-> "app", name |-> "db"]}

Binding(name, ns, role) ==
  [kind |-> "ClusterRoleBinding", ns |-> "", name |-> name,
   subjects |-> {Account(ns, "default")}, role |-> Ref("ClusterRole", role)]

Scc(name, users) ==
  [kind |-> "SecurityContextConstraints", ns |-> "", name |-> name, users |-> users]

SccRole == "system:openshift:scc:anyuid"

MCObjects ==
  {[kind |-> "ServiceAccount", ns |-> "app", name |-> "default"],
   Binding("b1", "app", SccRole), Binding("b2", "other", SccRole),
   [kind |-> "ClusterRole", ns |-> "", name |-> SccRole],
   Scc("anyuid", {}), Scc("nonroot", {Account("app", "default")})}
=============================================================================
