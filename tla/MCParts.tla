------------------------------ MODULE MCParts ------------------------------
(***************************************************************************)
(* Seven parts for TLC: API keys, refresh tokens, rate limiter, migrations, *)
(* job queue and, with one worker slot, the operation processor of the API, *)
(* and the network state of the SDK.  They share no variable, so the states *)
(* of their product say nothing that the states of each do not: a behaviour *)
(* of this module chooses one part, which runs while the others rest.       *)
(***************************************************************************)
EXTENDS SyncServer, ApiKeys, RefreshTokens, RateLimiter, Migrations, JobQueue, NetworkState

VARIABLE part  \* the part that runs

partVars == <<part, vars, keyVars, authVars, limitVars, processVars, jobVars, netVars>>

Parts == {"processor", "keys", "tokens", "limiter", "migrations", "jobs", "network"}

\* The parts that rest do so in one initial state each.
PartsInit ==
    /\ part \in Parts
    /\ Init /\ KeysInit /\ TokensInit /\ LimiterInit
    /\ MigrationsInit /\ JobsInit /\ NetworkInit
    /\ part # "network" => navigatorOnline
    /\ part # "processor" => \A o, p \in Ops : request[o] = request[p] /\ request[o].type = "create"

Run(name, step) == part = name /\ step /\ UNCHANGED part

PartsNext ==
    \/ /\ Run("processor", Next)
       /\ UNCHANGED <<keyVars, authVars, limitVars, processVars, jobVars, netVars>>
    \/ /\ Run("keys", KeysNext)
       /\ UNCHANGED <<vars, authVars, limitVars, processVars, jobVars, netVars>>
    \/ /\ Run("tokens", TokensNext)
       /\ UNCHANGED <<vars, keyVars, limitVars, processVars, jobVars, netVars>>
    \/ /\ Run("limiter", LimiterNext)
       /\ UNCHANGED <<vars, keyVars, authVars, processVars, jobVars, netVars>>
    \/ /\ Run("migrations", MigrationsNext)
       /\ UNCHANGED <<vars, keyVars, authVars, limitVars, jobVars, netVars>>
    \/ /\ Run("jobs", JobsNext)
       /\ UNCHANGED <<vars, keyVars, authVars, limitVars, processVars, netVars>>
    \/ /\ Run("network", NetworkNext)
       /\ UNCHANGED <<vars, keyVars, authVars, limitVars, processVars, jobVars>>

\* The fairness of each part, where the part runs.
PartsFairness ==
    /\ \A c \in Callers : SF_keyVars(Run("keys", KeyProgress(c)))
    /\ \A p \in Processes : WF_processVars(Run("migrations", StartProgress(p)))
    /\ \A p \in Instances : WF_processVars(Run("migrations", Start(p)))
    /\ \A s \in Slots : WF_jobVars(Run("jobs", SlotProgress(s)))
    /\ \A j \in Jobs : /\ WF_jobVars(Run("jobs", JobProgress(j)))
                       /\ WF_jobVars(Run("jobs", Poll(j)))
    /\ WF_netVars(Run("network", DispatchEvent))
    /\ \A s \in Sdks : WF_netVars(Run("network", CheckProgress(s)))

PartsSpec == PartsInit /\ [][PartsNext]_partVars /\ PartsFairness

\* MigratesEventually, in the behaviours in which the processes run.
InstancesMigrate == part = "migrations" => MigratesEventually

=============================================================================
