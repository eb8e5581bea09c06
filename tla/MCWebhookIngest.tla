---------------------------- MODULE MCWebhookIngest ----------------------------
(* Small instances of WebhookIngest for TLC. *)
EXTENDS WebhookIngest

CONSTANTS issued, forged, legacy, unstorable, s1, s2

AllIds == {issued, forged, legacy, unstorable}
LegacyIds == {legacy}
UnstorableIds == {unstorable}
IssuedIds == AllIds \ {forged}
================================================================================
