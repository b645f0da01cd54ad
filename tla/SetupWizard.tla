---------------------------- MODULE SetupWizard ----------------------------
(***************************************************************************)
(* The first-run wizard as the browser runs it (web/src/app/setup/page.tsx *)
(* over lib/api/client.ts), against the server's endpoints.  UserAdmin has *)
(* the server's side by SQL statement; here a request is one step and the  *)
(* page's awaits are what interleaves.  The user fills in valid forms.     *)
(***************************************************************************)
CONSTANTS
  Tabs,        \* browser tabs that show the wizard
  ValidTokens, \* access tokens the server would accept
  NoToken

VARIABLES
  adminExists, enrolled, completed,  \* the server: users, mfa_credentials, config
  step,      \* the step a tab shows
  hasId,     \* adminId is set
  hasTotp,   \* totpSetup is set
  awaiting,  \* the request a tab waits for
  error      \* the tab shows an error

server == <<adminExists, enrolled, completed>>
wizardVars == <<server, step, hasId, hasTotp, awaiting, error>>

TypeOK ==
  /\ adminExists \in BOOLEAN /\ enrolled \in BOOLEAN /\ completed \in BOOLEAN
  /\ step \in [Tabs -> {"admin", "mfa", "done"}]
  /\ hasId \in [Tabs -> BOOLEAN] /\ hasTotp \in [Tabs -> BOOLEAN]
  /\ awaiting \in [Tabs -> {"none", "createAdmin", "initiateTOTP", "confirmTOTP", "completeSetup"}]
  /\ error \in [Tabs -> BOOLEAN]

Init ==
  /\ adminExists = FALSE /\ enrolled = FALSE /\ completed = FALSE
  /\ step = [t \in Tabs |-> "admin"]
  /\ hasId = [t \in Tabs |-> FALSE] /\ hasTotp = [t \in Tabs |-> FALSE]
  /\ awaiting = [t \in Tabs |-> "none"]
  /\ error = [t \in Tabs |-> FALSE]

\* apiFetch sends the headers Content-Type and what its caller gives; no caller gives an Authorization header.
Bearer == NoToken

\* middleware.Require, in front of everything under /auth/mfa but verify.
Require(bearer) == bearer \in ValidTokens

Await(t, request) == awaiting' = [awaiting EXCEPT ![t] = request]

\* The catch and finally blocks.
Fails(t) ==
  /\ error' = [error EXCEPT ![t] = TRUE]
  /\ Await(t, "none")

SubmitAdmin(t) ==
  /\ step[t] = "admin" /\ awaiting[t] = "none"
  /\ error' = [error EXCEPT ![t] = FALSE]
  /\ Await(t, "createAdmin")
  /\ UNCHANGED <<server, step, hasId, hasTotp>>

CreateAdmin(t) ==
  /\ awaiting[t] = "createAdmin"
  /\ \/ /\ ~completed /\ ~adminExists
        /\ adminExists' = TRUE
        /\ hasId' = [hasId EXCEPT ![t] = TRUE]
        /\ Await(t, "initiateTOTP")
        /\ UNCHANGED error
     \/ /\ completed \/ adminExists
        /\ Fails(t)
        /\ UNCHANGED <<adminExists, hasId>>
  /\ UNCHANGED <<enrolled, completed, step, hasTotp>>

InitiateTOTP(t) ==
  /\ awaiting[t] = "initiateTOTP"
  /\ \/ /\ Require(Bearer)
        /\ hasTotp' = [hasTotp EXCEPT ![t] = TRUE]
        /\ step' = [step EXCEPT ![t] = "mfa"]
        /\ Await(t, "none")
        /\ UNCHANGED error
     \/ /\ ~Require(Bearer)
        /\ Fails(t)
        /\ UNCHANGED <<hasTotp, step>>
  /\ UNCHANGED <<server, hasId>>

SubmitCode(t) ==
  /\ step[t] = "mfa" /\ hasTotp[t] /\ awaiting[t] = "none"
  /\ error' = [error EXCEPT ![t] = FALSE]
  /\ Await(t, "confirmTOTP")
  /\ UNCHANGED <<server, step, hasId, hasTotp>>

ConfirmTOTP(t) ==
  /\ awaiting[t] = "confirmTOTP"
  /\ \/ /\ Require(Bearer)
        /\ enrolled' = TRUE
        /\ Await(t, "completeSetup")
        /\ UNCHANGED error
     \/ /\ ~Require(Bearer)
        /\ Fails(t)
        /\ UNCHANGED enrolled
  /\ UNCHANGED <<adminExists, completed, step, hasId, hasTotp>>

Complete(t) ==
  /\ awaiting[t] = "completeSetup"
  /\ \/ /\ ~completed /\ adminExists
        /\ completed' = TRUE
        /\ step' = [step EXCEPT ![t] = "done"]
        /\ Await(t, "none")
        /\ UNCHANGED error
     \/ /\ completed \/ ~adminExists
        /\ Fails(t)
        /\ UNCHANGED <<completed, step>>
  /\ UNCHANGED <<adminExists, enrolled, hasId, hasTotp>>

TabStep(t) ==
  SubmitAdmin(t) \/ CreateAdmin(t) \/ InitiateTOTP(t) \/ SubmitCode(t) \/ ConfirmTOTP(t) \/ Complete(t)

Next == \E t \in Tabs : TabStep(t)

\* The user goes on submitting and the server answers.
Spec == Init /\ [][Next]_wizardVars /\ \A t \in Tabs : WF_wizardVars(TabStep(t))

----------------------------------------------------------------------------
(* Properties *)

\* "you'll be guided through the setup wizard on first run": somebody who keeps filling in valid forms gets to the
\* end.  It does not hold: TOTP set-up is behind middleware.Require, which a wizard without a token does not pass.
WizardFinishes == <>(\E t \in Tabs : step[t] = "done")
=============================================================================
