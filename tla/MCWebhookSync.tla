---------------------------- MODULE MCWebhookSync ----------------------------
(* Instances of WebhookSync: a configuration for one group behind a        *)
(* Service without a port, and one for every group at a URL.               *)
EXTENDS WebhookSync

Tekton == [groups |-> {"tekton"}, service |-> "webhook", port |-> None, url |-> None]
Everything == [groups |-> {"*"}, service |-> None, port |-> None, url |-> "url"]

MCConfigs == {Tekton, Everything}
MCTekton == {Tekton}
=============================================================================
