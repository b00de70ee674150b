---------------------------- MODULE XboxOneLicensing ----------------------------
(***************************************************************************)
(* What the driver promises the apps that open connections to it, the      *)
(* licensing/enable-control channel of spec section 1, without DriverKit's *)
(* machinery:                                                              *)
(*  - a connection opens only while the input interface serves, and the   *)
(*    opening may fail;                                                    *)
(*  - on an open connection a call either fails, leaving the report gate  *)
(*    alone, or sets the gate to the truth value of the app's scalar and  *)
(*    answers with the value it set;                                       *)
(*  - the interface stops serving only once no connection is open, and    *)
(*    serves at most once.                                                 *)
(* How a connection maps to a user client, the client's pointer to the    *)
(* interface and the queues involved are left out.                         *)
(***************************************************************************)
CONSTANTS
    Clients,   \* connections apps may open
    Scalars    \* values apps may pass as the licensing call's scalar

VARIABLES
    stage,     \* the input interface: "before" its Start, "serving", "over"
    session,   \* session[c]: "none", "open", "failed" or "closed"
    gate,      \* the interface forwards reports to the HID stack
    answer     \* answer[c]: what c's last call returned to the app

licvars == <<stage, session, gate, answer>>

LicInit ==
    /\ stage = "before"
    /\ session = [c \in Clients |-> "none"]
    /\ gate = TRUE
    /\ answer = [c \in Clients |-> "none"]

(* The interface's Start: it serves, or it fails and never will.           *)
Serve ==
    /\ stage = "before"
    /\ stage' \in {"serving", "over"}
    /\ UNCHANGED <<session, gate, answer>>

(* An app opens connection c; the open may fail, and the app is told.      *)
Open(c) ==
    /\ stage = "serving"
    /\ session[c] = "none"
    /\ \/ session' = [session EXCEPT ![c] = "open"] /\ UNCHANGED answer
       \/ /\ session' = [session EXCEPT ![c] = "failed"]
          /\ answer' = [answer EXCEPT ![c] = "error"]
    /\ UNCHANGED <<stage, gate>>

(* A call on open connection c with scalar s: an error, or the licensing  *)
(* call, which sets the gate to s # 0 and answers what it set.             *)
Call(c, s) ==
    /\ session[c] = "open"
    /\ \/ answer' = [answer EXCEPT ![c] = "error"] /\ UNCHANGED gate
       \/ /\ gate' = (s # 0)
          /\ answer' = [answer EXCEPT ![c] = IF s # 0 THEN "on" ELSE "off"]
    /\ UNCHANGED <<stage, session>>

Close(c) ==
    /\ session[c] = "open"
    /\ session' = [session EXCEPT ![c] = "closed"]
    /\ UNCHANGED <<stage, gate, answer>>

(* The interface stops serving, only once no connection is open.           *)
Retire ==
    /\ stage = "serving"
    /\ \A c \in Clients : session[c] # "open"
    /\ stage' = "over"
    /\ UNCHANGED <<session, gate, answer>>

LicNext ==
    \/ Serve
    \/ \E c \in Clients : Open(c) \/ Close(c) \/ \E s \in Scalars : Call(c, s)
    \/ Retire

LicSpec == LicInit /\ [][LicNext]_licvars

=============================================================================
