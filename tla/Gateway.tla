------------------------------- MODULE Gateway -------------------------------
(***************************************************************************)
(* The gateway (internal/gateway): every call to it either is turned down  *)
(* at the door or becomes one command on the bus.  It keeps no state, so a *)
(* call that a client repeats is another call: POST /v1/reservations mints *)
(* a reservation id for each, whatever its Idempotency-Key.                *)
(***************************************************************************)
CONSTANTS
    ResId,          \* calls of POST /v1/reservations, by the id minted for them
    Pay,            \* calls of POST /v1/reservations/{id}/payment
    AuthTokens,     \* the token table: the user of each token
    Caller,         \* the bearer token of each call
    WellFormed      \* calls with an Idempotency-Key and a valid body

VARIABLES
    commands,   \* reserve commands in the stream
    submitted,  \* payment.process commands in the stream
    answer      \* what the client of each reservation call was told

Answer == {"none", "202", "503"}

Init ==
    /\ commands = {}
    /\ submitted = {}
    /\ answer = [r \in ResId |-> "none"]

\* Auth and the checks at the top of a handler; any other call is turned down and
\* leaves no trace.
Admitted(c) == Caller[c] \in DOMAIN AuthTokens /\ c \in WellFormed

\* Slip: the error of Publish is logged only.
AnswersRegardless(stored) == {"202"}

\* What Create tells the client when the command is stored or is not.  An error
\* of Publish does not say that it is not stored: the answer of the broker may
\* have come too late.
Answers(stored) == IF stored THEN {"202", "503"} ELSE {"503"}

Create(r) ==
    /\ answer[r] = "none"
    /\ Admitted(r)
    /\ \E stored \in BOOLEAN : \E a \in Answers(stored) :
          /\ answer' = [answer EXCEPT ![r] = a]
          /\ commands' = IF stored THEN commands \cup {r} ELSE commands
    /\ UNCHANGED submitted

\* A payment call that is stored, whatever its client is told.
ConfirmPayment(p) ==
    /\ p \notin submitted
    /\ Admitted(p)
    /\ submitted' = submitted \cup {p}
    /\ UNCHANGED <<commands, answer>>
=============================================================================
