----------------------------- MODULE MCAssistant -----------------------------
(* The assistant: its prompts, its connections, and the sessions and tokens *)
(* of MCP clients.  They share nothing, so a behaviour exercises one of     *)
(* them, its subject.                                                       *)
EXTENDS MCAiPrompts, AiConnections, McpSessions, McpOAuth

VARIABLE subject

CONSTANTS r1, s1, s2, s3, s4, one, other, k1, k2, g1, g2, x, y

(* Three sessions are of one user, who may have two, one is of another. *)
Owners    == (s1 :> one) @@ (s2 :> one) @@ (s3 :> one) @@ (s4 :> other)
Clients   == (g1 :> x) @@ (g2 :> y)
SomePatches == {[isDefault |-> TRUE], [enabled |-> FALSE]}

(* sessions: all of them on one replica; the other is only asked for them; *)
(* ids and POSTs are taken in order, and one session goes astray or cannot *)
(* be closed.                                                              *)
OneHome == \A s \in Session : home[s] \in {r1, Nowhere}
OneUp   == \A rep \in Replica : rep = r1 \/ phase[rep] = "up"
InOrder ==
    /\ home[s1] = Nowhere => home[s2] = Nowhere
    /\ home[s2] = Nowhere => home[s4] = Nowhere
    /\ home[s4] = Nowhere => home[s3] = Nowhere
Amiss    == {w \in astray : w[2] # "crashed"}
OneAmiss == Cardinality(Amiss) <= 1 /\ Cardinality(unclosed \cup {w[1] : w \in Amiss}) <= 1
InTurn   == posts[k1] = Free => (posts'[k2] = Free \/ posts[k2] # Free)
Sessions == OneHome /\ OneUp /\ InOrder /\ OneAmiss

(* prompts: two calls are to be run at a time, one of two prompts that run  *)
(* side by side is confirmed, and one is excused from a rule.               *)
Runs(p)  == talks[p].at \in {"user", "tenant", "talking"}
TwoCalls == \A p, q \in Prompt : p # q =>
    /\ Cardinality(steps[p].calls) + Cardinality(steps[q].calls) <= 2
    /\ Runs(p) /\ Runs(q) => ~ (steps[p].input.confirm /\ steps[q].input.confirm)
    /\ {} \in {story[p].excused, story[q].excused}

(* connections: three calls, two at a time *)
TwoJobs == Cardinality({j \in Job : ~ Does(j, "idle") /\ ~ Does(j, "done")}) <= 2

AssistantInit ==
    /\ PromptInit /\ ConnectionInit /\ McpInit /\ OAuthInit
    /\ now = 0
    /\ \/ subject = "prompts" /\ OneSetting(rules, forbidden)
       \/ subject \in {"connections", "sessions", "oauth"} /\ rules = [c \in Call |-> {}] /\ forbidden = {}
    /\ subject = "connections" \/ \A c \in Connection : ~ connections[c].isDefault

AssistantNext ==
    /\ \/ /\ subject = "prompts"
          /\ PromptNext /\ OneSetting(rules', forbidden') /\ SettingsKept /\ TwoCalls'
          /\ UNCHANGED <<connectionVars, mcpVars, oauthVars>>
       \/ /\ subject = "connections" /\ ConnectionNext /\ TwoJobs'
          /\ UNCHANGED <<promptVars, mcpVars, oauthVars>>
       \/ /\ subject = "sessions" /\ McpNext /\ Sessions' /\ InTurn
          /\ UNCHANGED <<promptVars, connectionVars, oauthVars>>
       \/ /\ subject = "oauth" /\ OAuthNext
          /\ UNCHANGED <<promptVars, connectionVars, mcpVars>>
    /\ UNCHANGED <<now, subject>>

AssistantSpec ==
    AssistantInit /\ [][AssistantNext]_<<promptVars, connectionVars, mcpVars, oauthVars, now, subject>>

AssistantTypeOK ==
    CASE subject = "prompts"     -> PromptTypeOK
      [] subject = "connections" -> ConnectionTypeOK
      [] subject = "sessions"    -> McpTypeOK
      [] subject = "oauth"       -> OAuthTypeOK
=============================================================================
