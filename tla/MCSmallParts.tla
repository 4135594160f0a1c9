---------------------------- MODULE MCSmallParts ----------------------------
(***************************************************************************)
(* Three parts that share no variable, for TLC: the header hash, the       *)
(* markup of a body, and serve.  A behaviour is one of one part; the other *)
(* two stay at an initial state.                                           *)
(***************************************************************************)
EXTENDS Markup, Preview, MCHeaderHash

VARIABLE part

mcvars == <<vars, serveVars, hashVars, part>>

OneHeader == [title |-> <<97>>, summary |-> <<>>, tags |-> <<>>]

MCInit ==
    /\ part \in {"hash", "markup", "serve"}
    /\ Init /\ ServeInit /\ HashInit
    /\ part # "hash" => header = OneHeader
    /\ part # "serve" => args = <<>>

HashStep == part = "hash" /\ HashNext /\ UNCHANGED <<vars, serveVars, part>>
MarkupStep == part = "markup" /\ Next /\ UNCHANGED <<serveVars, hashVars, part>>
ServeStep == part = "serve" /\ ServeNext /\ UNCHANGED <<vars, hashVars, part>>

MCNext == HashStep \/ MarkupStep \/ ServeStep

MCSpec == MCInit /\ [][MCNext]_mcvars
=============================================================================
