----------------------------- MODULE MCRunStream -----------------------------
(***************************************************************************)
(* Instances of RunStream for TLC, and what a caller gets that resumes a   *)
(* run when it has no stream left to read, as src/examples/resume.rs does. *)
(***************************************************************************)
EXTENDS RunStream

OpenAtStart == {0}
OpenAnywhere == {0, 1, 2}

\* A caller that does not give up: it reads, and resumes when the stream is gone and
\* there is no outcome yet.
PatientStep ==
  phase' = "resuming" /\ phase # "resuming" => stream = "none" /\ outcome = None

Patience ==
  /\ <>[][PatientStep]_vars
  /\ WF_vars(ResumeStart /\ PatientStep) /\ SF_vars(ResumeOk)

\* A dropped stream does not lose the run: a caller that has learnt the run's id
\* and keeps resuming, or waits instead, sees its result in the end, however often
\* the connection is cut (finitely often) and however many attempts to resume fail.
PatientCallerSeesOutcome ==
  Patience => ((phase = "idle" /\ runId) ~> (outcome # None \/ phase = "returned"))
==============================================================================
