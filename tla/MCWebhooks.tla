---------------------------- MODULE MCWebhooks ----------------------------
(* The subscriptions of test_http_auth_ext_local_password_register_form_01: *)
(* webhook-01 takes IdentityCreated and EmailFactorCreated (and a third     *)
(* type that adds nothing new here), webhook-03 only IdentityCreated.      *)
EXTENDS Webhooks, TLC

CONSTANTS IdentityCreated, EmailFactorCreated, webhook01, webhook03

MCEvents == {IdentityCreated, EmailFactorCreated}
MCSubscribers == {webhook01, webhook03}
MCSubscriptions == (IdentityCreated :> {webhook01, webhook03})
                   @@ (EmailFactorCreated :> {webhook01})
=============================================================================
