----------------------------- MODULE MCGateway ------------------------------
(* Instances of Gateway for TLC.                                           *)
EXTENDS Gateway

TwoDialects == <<"openai", "anthropic">>
=============================================================================
