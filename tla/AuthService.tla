---------------------------- MODULE AuthService -----------------------------
(***************************************************************************)
(* AuthService: accounts and tokens.  Registering awaits the hash of the   *)
(* password between looking the name up and storing the user, so that      *)
(* registrations overlap.  Comparing a password reads nothing that         *)
(* changes, so a login is one step.                                        *)
(*                                                                         *)
(* A user is identified by the call that registers it; a token by its      *)
(* user, as nothing tells two tokens of a user apart.  revokeToken,        *)
(* updatePassword and deleteUser have no caller.  "beside" is a history    *)
(* variable: the registrations under way when a registration began.        *)
(***************************************************************************)
EXTENDS Naturals, Sequences, SequencesExt

CONSTANTS
  Calls,   \* the registrations made
  Names,   \* usernames
  Roles    \* what a registration asks for

VARIABLES
  calls,   \* each registration: not made, hashing, over, or the user it created
  users,   \* the users Map, in insertion order
  tokens,  \* the users with a token that has not expired
  beside

authVars == <<calls, users, tokens, beside>>

Call(state, name, role) == [state |-> state, name |-> name, role |-> role]

AuthInit ==
  /\ calls = [c \in Calls |-> Call("none", "-", "-")]
  /\ users = <<>> /\ tokens = {} /\ beside = [c \in Calls |-> {}]

Hashing == {c \in Calls : calls[c].state = "hashing"}

(* The lookups among users.values(): is there a user of the name, and is   *)
(* this one the first of its name.                                         *)
Taken(name) == \E i \in DOMAIN users : calls[users[i]].name = name
FirstNamed(c) ==
  \E i \in DOMAIN users :
    users[i] = c /\ \A j \in 1 .. i - 1 : calls[users[j]].name # calls[c].name

(* Faulty: the name is not looked up. *)
CreateUserUnchecked(c, name, role) ==
  /\ calls[c].state = "none"
  /\ calls' = [calls EXCEPT ![c] = Call("hashing", name, role)]
  /\ beside' = [beside EXCEPT ![c] = Hashing]
  /\ UNCHANGED <<users, tokens>>

(* createUser up to the await. *)
CreateUser(c, name, role) ==
  /\ calls[c].state = "none"
  /\ IF Taken(name)
     THEN calls' = [calls EXCEPT ![c] = Call("over", "-", "-")] /\ UNCHANGED beside
     ELSE /\ calls' = [calls EXCEPT ![c] = Call("hashing", name, role)]
          /\ beside' = [beside EXCEPT ![c] = Hashing]
  /\ UNCHANGED <<users, tokens>>

(* The hash is ready: the user is stored, whatever has happened meanwhile; *)
(* or bcrypt fails and the route answers 500.                              *)
Hashed(c) ==
  /\ calls[c].state = "hashing"
  /\ calls' = [calls EXCEPT ![c].state = "created"]
  /\ users' = Append(users, c)
  /\ tokens' = tokens \cup {c}
  /\ UNCHANGED beside
HashFails(c) ==
  /\ calls[c].state = "hashing"
  /\ calls' = [calls EXCEPT ![c] = Call("over", "-", "-")]
  /\ UNCHANGED <<users, tokens, beside>>

(* authenticate: the first user of the name, when the password is its own. *)
Authenticate(c) ==
  /\ calls[c].state = "created"
  /\ tokens' = IF FirstNamed(c) THEN tokens \cup {c} ELSE tokens
  /\ UNCHANGED <<calls, users, beside>>

TokenExpires(c) ==
  /\ c \in tokens
  /\ tokens' = tokens \ {c}
  /\ UNCHANGED <<calls, users, beside>>
-----------------------------------------------------------------------------
(* A name has one account, unless its registrations overlapped: createUser *)
(* looks the name up before it awaits the hash and stores the user after   *)
(* it.  (Of two such accounts the second can never log in.)                *)
NamesTakenOnce ==
  \A c, d \in ToSet(users) :
    c # d /\ calls[c].name = calls[d].name => c \in beside[d] \/ d \in beside[c]
=============================================================================
