------------------------- MODULE XboxOneDriverRefinement -------------------------
(***************************************************************************)
(* The refinement mapping from the composed driver to the licensing        *)
(* contract of XboxOneLicensing.  The interface's stage is read off its    *)
(* phase (a Start that fails, and every phase from the stop on, are        *)
(* "over"); a connection's session off its user client's phase (a stopped *)
(* or freed client is a closed connection); the gate is ivars->enabled,   *)
(* and the app's answer the client's reply.                                *)
(***************************************************************************)
EXTENDS XboxOneDriver

StageOf(p) ==
    CASE p = "inited"  -> "before"
      [] p = "running" -> "serving"
      [] OTHER         -> "over"

SessionOf(cp) ==
    CASE cp = "none"    -> "none"
      [] cp = "started" -> "open"
      [] cp = "failed"  -> "failed"
      [] OTHER          -> "closed"

Lic == INSTANCE XboxOneLicensing
         WITH stage <- StageOf(phase),
              session <- [c \in Clients |-> SessionOf(cphase[c])],
              gate <- enabled,
              answer <- reply

(* The driver keeps the licensing contract: connections open only on a    *)
(* serving interface, which stops only once they are all closed, and an   *)
(* app told "on" or "off" by HandleLicensing has had SetEnable called     *)
(* with exactly that value (XboxOneUserClient.cpp's HandleLicensing, with *)
(* the unretained pointer NewUserClient_Impl set).                         *)
ImplementsLicensing == Lic!LicSpec

=============================================================================
