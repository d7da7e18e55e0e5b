--------------------------- MODULE MC_Deployment ---------------------------
(***************************************************************************)
(* Two nodes; three images (one plain, one for storage, one for            *)
(* monitoring) with monitoring skipped; four commands: two bootstrapper    *)
(* commands that run, one for controllers only, one bootstrapper command   *)
(* of the skipped monitoring feature.                                      *)
(***************************************************************************)
EXTENDS Deployment

CONSTANTS Controller, Storage, Monitoring

MCLabels == {Bootstrapper, Controller}
MCFeatures == {Storage, Monitoring}

MCImageFeatures == << {}, {Storage}, {Monitoring} >>

MCCommands ==
    << [labels |-> {Bootstrapper},             features |-> {}],
       [labels |-> {Controller},               features |-> {}],
       [labels |-> {Bootstrapper},             features |-> {Monitoring}],
       [labels |-> {Bootstrapper, Controller}, features |-> {Storage}] >>

=============================================================================
