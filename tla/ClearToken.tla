------------------------------- MODULE ClearToken -------------------------------
(***************************************************************************)
(* /cache/clear: without a token it hands one out, the one that stands or  *)
(* a new one; with a token it clears the storage, once, if the token is    *)
(* the one that stands.  A handler reads the clock before it has the lock, *)
(* and looks the token up and stores a new one in two critical sections.   *)
(***************************************************************************)
EXTENDS Naturals, FiniteSets

CONSTANTS
    Client,
    TTL,       \* five minutes
    MaxTime,   \* bound
    MaxTokens, \* bound: tokens made
    Forever    \* "" , no token

Token == 1..MaxTokens

VARIABLES
    time,
    token, expires,   \* the controller's, Forever when there is none
    made,             \* tokens made
    call,             \* client -> [pc, now, tok]: its request
    handed,           \* client -> the tokens it was given
    cleared           \* token -> how often it cleared the storage (history)

tokenVars == <<time, token, expires, made, call, handed, cleared>>
NoCall == [pc |-> "none", now |-> 0, tok |-> Forever]

Init ==
    /\ time = 0 /\ token = Forever /\ expires = 0 /\ made = 0
    /\ call = [c \in Client |-> NoCall]
    /\ handed = [c \in Client |-> {}]
    /\ cleared = [t \in Token |-> 0]

\* Two clients may share what they were given; nobody guesses a token, but an old or a
\* wrong one may come (Forever stands for a wrong one).
Ask(c, pc, t) ==
    /\ call[c].pc = "none"
    /\ pc = "use" => t \in UNION {handed[d] : d \in Client} \cup {Forever}
    /\ call' = [call EXCEPT ![c] = [pc |-> pc, now |-> time, tok |-> t]]
    /\ UNCHANGED <<time, token, expires, made, handed, cleared>>

Stands(now) == token # Forever /\ now < expires

\* The first critical section: the token that stands is handed out.
LookUp(c) ==
    /\ call[c].pc = "look"
    /\ IF Stands(call[c].now)
       THEN /\ handed' = [handed EXCEPT ![c] = @ \cup {token}]
            /\ call' = [call EXCEPT ![c] = NoCall]
       ELSE call' = [call EXCEPT ![c].pc = "make"] /\ UNCHANGED handed
    /\ UNCHANGED <<time, token, expires, made, cleared>>

\* The second: a new one takes the place of whatever is there by now.
Make(c) ==
    LET t == made + 1
    IN  /\ call[c].pc = "make" /\ made < MaxTokens
        /\ made' = t /\ token' = t /\ expires' = call[c].now + TTL
        /\ handed' = [handed EXCEPT ![c] = @ \cup {t}]
        /\ call' = [call EXCEPT ![c] = NoCall]
        /\ UNCHANGED <<time, cleared>>

UseV(c) ==                                               \* kept when it is right
    LET s == call[c]
        valid == s.tok = token /\ Stands(s.now)
    IN  /\ s.pc = "use"
        /\ IF valid THEN UNCHANGED <<token, expires>> ELSE token' = Forever /\ expires' = 0
        /\ cleared' = IF valid THEN [cleared EXCEPT ![token] = @ + 1] ELSE cleared
        /\ call' = [call EXCEPT ![c] = NoCall]
        /\ UNCHANGED <<time, made, handed>>
\* Whatever the token, right or wrong, none stands after.
Use(c) ==
    LET s == call[c]
        valid == s.tok = token /\ Stands(s.now)
    IN  /\ s.pc = "use"
        /\ token' = Forever /\ expires' = 0
        /\ cleared' = IF valid THEN [cleared EXCEPT ![token] = @ + 1] ELSE cleared
        /\ call' = [call EXCEPT ![c] = NoCall]
        /\ UNCHANGED <<time, made, handed>>

Tick ==
    /\ time < MaxTime
    /\ time' = time + 1
    /\ UNCHANGED <<token, expires, made, call, handed, cleared>>

Next ==
    \/ \E c \in Client : \/ Ask(c, "look", Forever)
                         \/ \E t \in Token \cup {Forever} : Ask(c, "use", t)
                         \/ LookUp(c) \/ Make(c) \/ Use(c)
    \/ Tick

-------------------------------------------------------------------------------
\* A token clears the storage at most once, a token that does was handed to someone,
\* and none that did stands again - though lookups, makings and uses of several
\* clients overlap.
SingleUse ==
    \A t \in Token :
        /\ cleared[t] <= 1
        /\ cleared[t] > 0 => t # token /\ \E c \in Client : t \in handed[c]
===============================================================================
