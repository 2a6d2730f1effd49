---------------------------- MODULE MCNamespaceSync ----------------------------
(* Instances of NamespaceSync: one system namespace and one other.           *)
EXTENDS NamespaceSync

MCSystem == {"kube-system"}
MCNames == MCSystem \cup {"tenant"}
=============================================================================
