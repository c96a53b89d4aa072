--------------------------- MODULE MCRunLifecycle ---------------------------
(* A small instance of RunLifecycle: the policy wants the task approved, or denies it. *)
EXTENDS RunLifecycle

MCGuarded == {"require_approval", "deny"}
=============================================================================
