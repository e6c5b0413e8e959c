---------------------------- MODULE MCScoringPipeline ----------------------------
(***************************************************************************)
(* Four validators for two seats.  With everyone's endpoints resolved,     *)
(* keys 1 and 2 share a country and, under two names, a provider; in the   *)
(* second snapshot key 4 is gone and key 1's endpoint is not resolved.     *)
(***************************************************************************)
EXTENDS ScoringPipeline, TLC

ASN(raw, words) == [raw |-> raw, words |-> words]
At(country, asn) == [country |-> country, asn |-> asn]
Nowhere == At(Unknown, Unknown)

Linode == At("DE", ASN("akamai-linode-ap akamai connected cloud, de",
                       <<"akamai", "connected", "cloud">>))
Akamai == At("DE", ASN("linode, llc", <<"linode", "llc">>))
Vultr == At("US", ASN("as-vultr - the constant company, llc, us",
                      <<"the", "constant", "company", "llc">>))
Plain == At("JP", ASN("as12876", <<"as">>))

MCSnapshots ==
  {(1 :> Linode @@ 2 :> Akamai @@ 3 :> Plain @@ 4 :> Vultr),
   (1 :> Nowhere @@ 2 :> Akamai @@ 3 :> Plain)}

Verdict(c, other) ==
  [consensus |-> c, reliability |-> other, software |-> other, identity |-> other]

\* Strong; weaker by the gap of 3; offline with perfect secondary scores.
MCVerdicts == {Verdict(90, 90), Verdict(84, 90), Verdict(14, 100)}

MCOverrides == {{1, 2, 3}, {4}}
=============================================================================
