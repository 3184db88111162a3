-------------------------------- MODULE Api ---------------------------------
(***************************************************************************)
(* The REST API: the middleware in front of every route, and the routes    *)
(* that change what AuthService and AlertManager keep.  A request is one   *)
(* step up to the first await of its handler.  The routes that read, and   *)
(* those of the other components, whose actions are those of the other     *)
(* modules, only pass the rate limiter here.                               *)
(***************************************************************************)
EXTENDS RateLimiter, AuthService, Alerting

apiVars == <<limiterVars, authVars, alertVars>>

ApiInit == LimiterInit /\ AuthInit /\ AlertInit

(* createRateLimitMiddleware: 429 ends the request. *)
TooMany(k) == Check(k) /\ ~Allowed(k) /\ UNCHANGED <<authVars, alertVars>>
Passes(k) == Allowed(k) /\ Check(k)

Register(k, c, name, role) == Passes(k) /\ CreateUser(c, name, role) /\ UNCHANGED alertVars
Login(k, c) == Passes(k) /\ Authenticate(c) /\ UNCHANGED alertVars

(* createAuthMiddleware and createRoleMiddleware('admin'): 401 and 403 end *)
(* the request.                                                            *)
Auth(c) == c \in tokens
AdminOnly(c) == calls[c].role = "admin"
Acknowledge(k, c, id) ==
  /\ Passes(k)
  /\ IF Auth(c) /\ AdminOnly(c) THEN AcknowledgeAlert(id) ELSE UNCHANGED alertVars
  /\ UNCHANGED authVars

OtherRoute(k) == Passes(k) /\ UNCHANGED <<authVars, alertVars>>

Tick == LimiterTick /\ AlertTick /\ UNCHANGED authVars

Timers ==
  \/ Cleanup /\ UNCHANGED <<authVars, alertVars>>
  \/ (Collect \/ EvaluateRules) /\ UNCHANGED <<limiterVars, authVars>>

ApiNext ==
  \/ \E k \in Keys :
       \/ TooMany(k)
       \/ OtherRoute(k)
       \/ \E c \in Calls, name \in Names, role \in Roles : Register(k, c, name, role)
       \/ \E c \in Calls : Login(k, c)
       \/ \E c \in Calls, id \in AlertIds : Acknowledge(k, c, id)
  \/ \E c \in Calls : (Hashed(c) \/ HashFails(c) \/ TokenExpires(c)) /\ UNCHANGED <<limiterVars, alertVars>>
  \/ Changes /\ UNCHANGED <<limiterVars, authVars>>
  \/ Timers
  \/ Tick

(* Time passes, and the interval timers keep firing. *)
ApiFairness ==
  /\ WF_apiVars(Tick)
  /\ WF_apiVars(Collect /\ UNCHANGED <<limiterVars, authVars>>)
  /\ WF_apiVars(EvaluateRules /\ UNCHANGED <<limiterVars, authVars>>)

ApiSpec == ApiInit /\ [][ApiNext]_apiVars /\ ApiFairness
=============================================================================
