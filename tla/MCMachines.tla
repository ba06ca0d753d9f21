----------------------------- MODULE MCMachines -----------------------------
(***************************************************************************)
(* Federation and PaneOutput for TLC in one run.  They share no state:     *)
(* part says which of them a behaviour is about, the other stays as it     *)
(* starts.                                                                 *)
(***************************************************************************)
EXTENDS Federation, PaneOutput

VARIABLE part

MachinesInit ==
  /\ part \in {"federation", "output"}
  /\ FederationInit /\ OutputInit
  /\ part = "output" => ~configured

MachinesNext ==
  /\ UNCHANGED part
  /\ \/ part = "federation" /\ FederationNext /\ UNCHANGED outputVars
     \/ part = "output" /\ OutputNext /\ UNCHANGED federationVars

(* FederationFairness and OutputFairness, each for its own part.           *)
MachinesFairness ==
  /\ \A w \in Watcher : WF_federationVars(part = "federation" /\ Serve(w))
  /\ \A w \in Watcher : WF_federationVars(part = "federation" /\ Watch(w))
  /\ WF_federationVars(part = "federation" /\ (UpsertResets \/ StartWatcher \/ RemoveForgets))
  /\ \A r \in Reader : WF_outputVars(part = "output" /\ ReaderStep(r))
  /\ WF_outputVars(part = "output" /\ PageStep)
  /\ WF_outputVars(part = "output" /\ OtherRevision)

MachinesSpec ==
  MachinesInit /\ [][MachinesNext]_<<part, federationVars, outputVars>> /\ MachinesFairness

----------------------------------------------------------------------------
\* The variables of both parts have their types; a mirror and its stream are
\* safe (FederationSafe); a pane's text is never older than what its machine had
\* advertised when it was asked for (ReadIsRecent).
MachinesSafe == OutputTypeOK /\ FederationSafe /\ ReadIsRecent

\* PageCatchesUp, of the pane output.
StreamCatchesUp ==
  <>[](mirrored.is = "online" /\ mirrored.advert = content)
    => <>[](part = "federation" \/ page.at = "over" \/ page.previous = content)
=============================================================================
