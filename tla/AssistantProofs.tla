--------------------------- MODULE AssistantProofs ---------------------------
(***************************************************************************)
(* What the AI assistant promises, for any number of sessions and prompts:  *)
(* where the registry of MCP sessions sends a client, that no tool passes a *)
(* gate that stands against it, by how much a budget is overspent, that one *)
(* connection is the default, and that what a user consented to is held     *)
(* once.                                                                    *)
(***************************************************************************)
EXTENDS McpSessions, McpOAuth, AiPrompts, AiConnections, FiniteSetTheorems, TLAPS

-----------------------------------------------------------------------------
(* MCP sessions, for any number of replicas, sessions and requests.         *)

Strays(s) == \E why \in Cause : <<s, why>> \in astray

McpTypes ==
    /\ home \in [Session -> Replica \cup {Nowhere}]
    /\ transports \in [Replica -> SUBSET Session]
    /\ leaving \in [Replica -> SUBSET Session]
    /\ open \subseteq Session /\ registered \subseteq Session
    /\ posts \in [Post -> Session \cup {Free}]
    /\ phase \in [Replica -> Phase]

(* A session has a home before anything else, and is held there or nowhere; *)
(* a request is handled by a replica that still runs.                       *)
AtHome ==
    /\ \A rep \in Replica : \A s \in transports[rep] : home[s] = rep
    /\ \A rep \in Replica : phase[rep] = "gone" => transports[rep] = {}
    /\ \A s \in registered \cup open : home[s] \in Replica
    /\ \A k \in Post : posts[k] # Free => home[posts[k]] \in Replica /\ phase[home[posts[k]]] # "gone"

(* The memory of a replica and the registry agree on a session that is not  *)
(* astray: it is open where it is held, and held where it is registered.    *)
Agreed ==
    /\ \A s \in registered : Strays(s) \/ (s \in transports[home[s]] /\ s \in open)
    /\ \A rep \in Replica : \A s \in transports[rep] : Strays(s) \/ s \in open

(* Once a shutdown has deleted its keys, whatever is left of the sessions   *)
(* of the replica, or comes back, is astray.                                *)
LeftBehind ==
    \A rep \in Replica : phase[rep] \in {"cleared", "gone"} =>
        /\ \A s \in transports[rep] : Strays(s)
        /\ \A s \in registered : home[s] = rep => Strays(s)

McpInv == McpTypes /\ AtHome /\ Agreed /\ LeftBehind

LEMMA AgreedSuffices == McpInv => SentToHolder
BY DEF McpInv, AtHome, Agreed, SentToHolder, foreignSessionOwner, Strays, Holds

(* A transport that is closed where it is held, and its key that is deleted *)
(* or not, leave nothing that disagrees.                                    *)
LEMMA Closed ==
  ASSUME McpInv, NEW rep \in Replica, NEW s \in transports[rep], NEW set \in SUBSET Session,
         set \in {registered, registered \cup {s}}, releaseSession({s}, set),
         open' = open \ {s}, transports' = [transports EXCEPT ![rep] = @ \ {s}],
         UNCHANGED <<home, posts, phase, leaving>>
  PROVE  McpInv'
<1> USE DEF McpInv, McpTypes
<1>1. PICK heard \in SUBSET ({s} \cap set) :
        registered' = set \ heard /\ astray' = astray \cup {<<v, "unheard">> : v \in ({s} \cap set) \ heard}
  BY DEF releaseSession
<1>2. \A v : Strays(v) => Strays(v)'
  BY <1>1 DEF Strays, Cause
<1>3. s \in registered' => Strays(s)'
  BY <1>1 DEF Strays, Cause
<1>4. McpTypes'
  BY <1>1
<1>5. AtHome'
  BY <1>1 DEF AtHome
<1>6. Agreed'
  BY <1>1, <1>2, <1>3 DEF Agreed, AtHome
<1>7. LeftBehind'
  BY <1>1, <1>2, <1>3 DEF LeftBehind
<1> QED BY <1>4, <1>5, <1>6, <1>7

LEMMA McpStep == ASSUME McpInv, [McpNext]_mcpVars PROVE McpInv'
<1> USE SessionAssumption DEF McpInv, McpTypes, Phase
<1>1. ASSUME NEW k \in Post, NEW rep \in Replica, NEW s \in Session, Initialize(k, rep, s) \/ handlePost(k, rep, s) PROVE McpInv'
  <2>1. CASE Initialize(k, rep, s)
    BY <2>1 DEF Initialize, Serves, AtHome, Agreed, LeftBehind, Strays
  <2>2. CASE handlePost(k, rep, s)
    BY <2>2 DEF handlePost, Serves, Holds, AtHome, Agreed, LeftBehind, Strays
  <2> QED BY <1>1, <2>1, <2>2
<1>2. ASSUME NEW k \in Post, Registered(k) PROVE McpInv'
  <2>1. PICK s \in Session, rep \in Replica :
          /\ s = posts[k] /\ rep = home[s] /\ phase[rep] # "gone" /\ posts' = [posts EXCEPT ![k] = Free]
          /\ UNCHANGED <<home, phase, leaving>>
    BY <1>2 DEF Registered, AtHome
  <2> DEFINE Puts(v, r) == \E set \in registerSession(v, registered) :
              IF Holds(r, v)
              THEN registered' = set /\ UNCHANGED <<transports, open, unclosed, astray>>
              ELSE LET victims == evictIfNeeded(r, OwnerOf[v])
                   IN  \E out \in IF victims = {} THEN {{}} ELSE {{w} : w \in victims} :
                          /\ transports' = [transports EXCEPT ![r] = (@ \ out) \cup {v}]
                          /\ open' = open \ out
                          /\ unclosed' = unclosed \ {v}
                          /\ \E heard \in SUBSET (out \cap set) :
                                /\ registered' = set \ heard
                                /\ astray' = astray \cup {<<w, "unheard">> : w \in (out \cap set) \ heard}
                                      \cup (IF v \in open /\ phase[r] # "cleared" THEN {} ELSE {<<v, "returned">>})
  <2>a. Puts(posts[k], home[posts[k]])
    BY <1>2 DEF Registered
  <2>b. Puts(s, rep)
    <3> HIDE DEF Puts
    <3> QED BY <2>1, <2>a
  <2>2. PICK set \in registerSession(s, registered) :
              IF Holds(rep, s)
              THEN registered' = set /\ UNCHANGED <<transports, open, unclosed, astray>>
              ELSE LET victims == evictIfNeeded(rep, OwnerOf[s])
                   IN  \E out \in IF victims = {} THEN {{}} ELSE {{v} : v \in victims} :
                          /\ transports' = [transports EXCEPT ![rep] = (@ \ out) \cup {s}]
                          /\ open' = open \ out
                          /\ unclosed' = unclosed \ {s}
                          /\ \E heard \in SUBSET (out \cap set) :
                                /\ registered' = set \ heard
                                /\ astray' = astray \cup {<<v, "unheard">> : v \in (out \cap set) \ heard}
                                      \cup (IF s \in open /\ phase[rep] # "cleared" THEN {} ELSE {<<s, "returned">>})
    BY <2>b
  <2>3. set \in SUBSET Session /\ set \in {registered, registered \cup {s}}
    BY <2>1, <2>2 DEF registerSession
  <2>4. CASE Holds(rep, s)
    <3>1. registered' = set /\ UNCHANGED <<transports, open, astray>>
      BY <2>2, <2>4
    <3> QED BY <2>1, <2>3, <2>4, <3>1 DEF Holds, AtHome, Agreed, LeftBehind, Strays
  <2>5. CASE ~ Holds(rep, s)
    <3> DEFINE victims == evictIfNeeded(rep, OwnerOf[s])
               outs == IF victims = {} THEN {{}} ELSE {{v} : v \in victims}
    <3>1. outs \subseteq SUBSET transports[rep]
      <4>1. victims \subseteq transports[rep]
        BY DEF evictIfNeeded, OfUser
      <4> QED BY <4>1
    <3>2. PICK out \in SUBSET transports[rep] :
                          /\ transports' = [transports EXCEPT ![rep] = (@ \ out) \cup {s}]
                          /\ open' = open \ out
                          /\ unclosed' = unclosed \ {s}
                          /\ \E heard \in SUBSET (out \cap set) :
                                /\ registered' = set \ heard
                                /\ astray' = astray \cup {<<v, "unheard">> : v \in (out \cap set) \ heard}
                                      \cup (IF s \in open /\ phase[rep] # "cleared" THEN {} ELSE {<<s, "returned">>})
      <4>1. \E out \in outs :
                          /\ transports' = [transports EXCEPT ![rep] = (@ \ out) \cup {s}]
                          /\ open' = open \ out
                          /\ unclosed' = unclosed \ {s}
                          /\ \E heard \in SUBSET (out \cap set) :
                                /\ registered' = set \ heard
                                /\ astray' = astray \cup {<<v, "unheard">> : v \in (out \cap set) \ heard}
                                      \cup (IF s \in open /\ phase[rep] # "cleared" THEN {} ELSE {<<s, "returned">>})
        BY <2>2, <2>5
      <4> QED BY <3>1, <4>1
    <3>3. PICK heard \in SUBSET (out \cap set) :
                /\ registered' = set \ heard
                /\ astray' = astray \cup {<<v, "unheard">> : v \in (out \cap set) \ heard}
                      \cup (IF s \in open /\ phase[rep] # "cleared" THEN {} ELSE {<<s, "returned">>})
      BY <3>2
    <3>4. /\ \A v : Strays(v) => Strays(v)'
          /\ \A v \in out : v \in registered' => Strays(v)'
          /\ Strays(s)' \/ (s \in open /\ phase[rep] # "cleared")
      <4>1. astray \subseteq astray' /\ \A v \in (out \cap set) \ heard : <<v, "unheard">> \in astray'
        BY <3>3
      <4>2. (s \in open /\ phase[rep] # "cleared") \/ <<s, "returned">> \in astray'
        BY <3>3
      <4>3. \A v \in out : v \in registered' => <<v, "unheard">> \in astray'
        BY <3>3, <4>1
      <4> HIDE DEF McpInv
      <4> QED BY <4>1, <4>2, <4>3 DEF Strays, Cause
    <3>5. s \notin out
      BY <2>5 DEF Holds
    <3>6. McpTypes'
      BY <2>1, <2>3, <3>2, <3>3
    <3>7. AtHome'
      BY <2>1, <2>3, <3>2, <3>3 DEF AtHome
    <3>8. Agreed'
      <4>1. ASSUME NEW v \in registered' PROVE (Strays(v) \/ (v \in transports[home[v]] /\ v \in open))'
        <5>1. CASE v = s
          BY <2>1, <3>2, <3>4, <3>5, <5>1
        <5>2. CASE v # s
          <6>1. v \in registered /\ (v \in out => Strays(v)')
            BY <2>3, <3>3, <3>4, <5>2
          <6>2. CASE home[v] = rep
            BY <2>1, <3>2, <3>4, <6>1, <6>2 DEF Agreed
          <6>3. CASE home[v] # rep
            BY <2>1, <3>2, <3>4, <6>1, <6>3 DEF Agreed, AtHome
          <6> QED BY <6>2, <6>3
        <5> QED BY <5>1, <5>2
      <4>2. ASSUME NEW r \in Replica, NEW v \in transports'[r] PROVE (Strays(v) \/ v \in open)'
        <5>1. CASE v = s
          BY <3>2, <3>4, <3>5, <5>1
        <5>2. CASE v # s
          BY <2>1, <3>2, <3>4, <5>2 DEF Agreed, AtHome
        <5> QED BY <5>1, <5>2
      <4> QED BY <4>1, <4>2 DEF Agreed
    <3>9. LeftBehind'
      <4>1. ASSUME NEW r \in Replica, phase[r] \in {"cleared", "gone"} PROVE (\A v \in transports[r] : Strays(v))'
        BY <2>1, <3>2, <3>4, <4>1 DEF LeftBehind
      <4>2. ASSUME NEW r \in Replica, phase[r] \in {"cleared", "gone"}, NEW v \in registered', home[v] = r PROVE Strays(v)'
        <5>1. CASE v = s
          BY <2>1, <3>4, <4>2, <5>1
        <5>2. CASE v # s
          BY <2>3, <3>3, <3>4, <4>2, <5>2 DEF LeftBehind
        <5> QED BY <5>1, <5>2
      <4> QED BY <2>1, <4>1, <4>2 DEF LeftBehind
    <3> QED BY <3>6, <3>7, <3>8, <3>9
  <2> QED BY <2>4, <2>5
<1>3. ASSUME NEW k \in Post, PostFails(k) PROVE McpInv'
  BY <1>3 DEF PostFails, AtHome, Agreed, LeftBehind, Strays
<1>4. ASSUME NEW rep \in Replica, onModuleDestroy(rep) PROVE McpInv'
  BY <1>4 DEF onModuleDestroy, AtHome, Agreed, LeftBehind, Strays
<1>5. ASSUME NEW rep \in Replica, CloseNext(rep) PROVE McpInv'
  <2>1. PICK s \in transports[rep] : Close(rep, s) \/ UNCHANGED <<transports, open, registered, astray>>
    BY <1>5 DEF CloseNext
  <2>2. CASE Close(rep, s)
    BY <1>5, <2>1, <2>2, Closed DEF CloseNext, Close
  <2>3. CASE UNCHANGED <<transports, open, registered, astray>>
    BY <1>5, <2>3 DEF CloseNext, AtHome, Agreed, LeftBehind, Strays
  <2> QED BY <2>1, <2>2, <2>3
<1>6. ASSUME NEW rep \in Replica, Cleared(rep) PROVE McpInv'
  <2>1. PICK heard \in SUBSET (leaving[rep] \cap registered) :
          /\ registered' = registered \ heard
          /\ astray' = astray \cup {<<v, "unheard">> : v \in (leaving[rep] \cap registered) \ heard}
                       \cup {<<v, "unclosed">> : v \in (transports[rep] \ leaving[rep]) \cap registered}
    BY <1>6 DEF Cleared
  <2>2. /\ phase' = [phase EXCEPT ![rep] = "cleared"] /\ transports' = [transports EXCEPT ![rep] = {}]
        /\ leaving' = [leaving EXCEPT ![rep] = {}] /\ UNCHANGED <<home, open, posts>> /\ phase[rep] = "closing"
    BY <1>6 DEF Cleared
  <2>3. \A v : Strays(v) => Strays(v)'
    BY <2>1 DEF Strays
  <2>4. \A v \in registered' : home[v] = rep => Strays(v)'
    <3> SUFFICES ASSUME NEW v \in registered', home[v] = rep PROVE Strays(v)'
      OBVIOUS
    <3>1. v \in registered /\ v \notin heard /\ (Strays(v) \/ v \in transports[rep])
      BY <2>1 DEF Agreed
    <3>2. CASE Strays(v)
      BY <2>3, <3>2
    <3>3. CASE v \in leaving[rep]
      <4>1. <<v, "unheard">> \in astray'
        BY <2>1, <3>1, <3>3
      <4> QED BY <4>1 DEF Strays, Cause
    <3>4. CASE v \in transports[rep] /\ v \notin leaving[rep]
      <4>1. <<v, "unclosed">> \in astray'
        BY <2>1, <3>1, <3>4
      <4> QED BY <4>1 DEF Strays, Cause
    <3> QED BY <3>1, <3>2, <3>3, <3>4
  <2>5. McpTypes' /\ AtHome'
    BY <2>1, <2>2 DEF AtHome
  <2>6. Agreed'
    <3>1. ASSUME NEW v \in registered' PROVE (Strays(v) \/ (v \in transports[home[v]] /\ v \in open))'
      <4>1. v \in registered
        BY <2>1
      <4>2. CASE home[v] = rep
        BY <2>4, <4>2
      <4>3. CASE home[v] # rep
        BY <2>2, <2>3, <4>1, <4>3 DEF Agreed, AtHome
      <4> QED BY <4>2, <4>3
    <3>2. ASSUME NEW r \in Replica, NEW v \in transports'[r] PROVE (Strays(v) \/ v \in open)'
      BY <2>2, <2>3, <3>2 DEF Agreed
    <3> QED BY <3>1, <3>2 DEF Agreed
  <2>7. LeftBehind'
    <3>1. ASSUME NEW r \in Replica, phase'[r] \in {"cleared", "gone"}, NEW v \in transports'[r] PROVE Strays(v)'
      BY <2>2, <2>3, <3>1 DEF LeftBehind
    <3>2. ASSUME NEW r \in Replica, phase'[r] \in {"cleared", "gone"}, NEW v \in registered', home[v] = r PROVE Strays(v)'
      BY <2>1, <2>2, <2>3, <2>4, <3>2 DEF LeftBehind
    <3> QED BY <2>2, <3>1, <3>2 DEF LeftBehind
  <2> QED BY <2>5, <2>6, <2>7
<1>7. ASSUME NEW rep \in Replica, Exit(rep) PROVE McpInv'
  <2>1. \A v : Strays(v) => Strays(v)'
    BY <1>7 DEF Exit, Strays
  <2>2. \A v \in registered : home[v] = rep => Strays(v)'
    <3>1. CASE phase[rep] = "cleared"
      BY <2>1, <3>1 DEF LeftBehind
    <3>2. CASE phase[rep] # "cleared"
      BY <1>7, <3>2 DEF Exit, Strays, Cause
    <3> QED BY <3>1, <3>2
  <2>3. McpTypes'
    BY <1>7 DEF Exit
  <2>4. AtHome'
    BY <1>7 DEF Exit, AtHome
  <2>5. Agreed'
    BY <1>7, <2>1, <2>2 DEF Exit, Agreed, AtHome
  <2>6. LeftBehind'
    BY <1>7, <2>1, <2>2 DEF Exit, LeftBehind
  <2> QED BY <2>3, <2>4, <2>5, <2>6
<1>8. ASSUME NEW rep \in Replica, NEW s \in Session, handleGet(rep, s) PROVE McpInv'
  BY <1>8 DEF handleGet, registerSession, Serves, Holds, AtHome, Agreed, LeftBehind, Strays
<1>9. ASSUME NEW rep \in Replica, NEW s \in Session, handleDelete(rep, s) PROVE McpInv'
  <2>1. PICK set \in registerSession(s, registered) : releaseSession({s}, set)
    BY <1>9 DEF handleDelete
  <2>2. set \in SUBSET Session /\ set \in {registered, registered \cup {s}}
    BY <2>1 DEF registerSession
  <2> QED BY <1>9, <2>1, <2>2, Closed DEF handleDelete, Holds
<1>10. ASSUME NEW s \in Session, Expire(s) PROVE McpInv'
  BY <1>10 DEF Expire, AtHome, Agreed, LeftBehind, Strays
<1>11. CASE UNCHANGED mcpVars
  BY <1>11 DEF mcpVars, AtHome, Agreed, LeftBehind, Strays
<1> QED BY <1>1, <1>2, <1>3, <1>4, <1>5, <1>6, <1>7, <1>8, <1>9, <1>10, <1>11 DEF McpNext

(* Whoever is told that a session is elsewhere finds it open there, unless  *)
(* a replica died, the deletion of an entry was lost, a POST outlasted its  *)
(* session, or a session begun during a shutdown could not be closed.       *)
THEOREM SentToHolderCorrect == McpSpec => []SentToHolder
<1>1. McpInit => McpInv
  BY SessionAssumption DEF McpInit, McpInv, McpTypes, Phase, AtHome, Agreed, LeftBehind
<1>2. McpInv /\ [McpNext]_mcpVars => McpInv'
  BY McpStep
<1> QED BY <1>1, <1>2, AgreedSuffices, PTL DEF McpSpec
-----------------------------------------------------------------------------
(* The gates, for any number of prompts, calls, tools, rules and grants.    *)

(* Only a prompt that talks to the model has done anything.                 *)
Fresh(p) == talks[p].at # "talking" => steps[p].at = "none" /\ story[p].done = {} /\ story[p].vetoed = {}

(* How often the model was asked: a plan is its first answer.               *)
Counted(p) ==
    /\ steps[p].at = "asking" => talks[p].used < MaxChats /\ (Is(p, "plan") => talks[p].used <= 1)
    /\ Is(p, "plan") /\ steps[p].at \in {"authorizing", "running"} => talks[p].used = 1
    /\ steps[p].at \in {"judging", "gating"} => Is(p, "auto")
    /\ steps[p].at = "authorizing" => Is(p, "plan")

(* The rules that bound a prompt when it was sent have been read for the    *)
(* calls that are past them.                                                *)
Excused(p, c, decision) == decision \notin story[p].law[c] \/ c \in story[p].excused
Judged(p) ==
    /\ Is(p, "auto") /\ steps[p].at \in {"gating", "running"} => \A c \in Known(steps[p].calls) : Excused(p, c, "deny")
    /\ steps[p].at = "gating" => \A c \in Known(steps[p].calls) : Excused(p, c, "ask") \/ ToolOf[c] \in steps[p].asked

(* What a call may be run for without a confirmation                        *)
Remembers(p, c) ==
    /\ ToolOf[c] \notin Destructive /\ Is(p, "auto")
    /\ \E s \in ScopesOf(p) : [tool |-> ToolOf[c], scope |-> s] \in approved
Unasked(p, c) == ~ confirmationRequiredFor(ToolOf[c], steps[p].input) /\ (Is(p, "plan") \/ Excused(p, c, "ask"))
Gated(p) ==
    steps[p].at = "running" /\ ~ steps[p].input.confirm =>
        \A c \in Known(steps[p].calls) : Unasked(p, c) \/ Remembers(p, c)

(* A plan is vetoed before any of it is run, and as a whole.                *)
Vetoed(p) ==
    Is(p, "plan") =>
        /\ steps[p].at = "authorizing" \/ talks[p].used = 0 => story[p].done = {} /\ story[p].vetoed = {}
        /\ story[p].vetoed # {} => steps[p].at = "closing" /\ story[p].done = {}

(* GatesHold, of one prompt                                                 *)
Kept(p) ==
    /\ Is(p, "auto") => \A c \in story[p].done : Excused(p, c, "deny")
    /\ ~ steps[p].input.confirm => \A c \in story[p].done : Unasked(p, c) \/ Remembers(p, c)

PromptOK(p) == Fresh(p) /\ Counted(p) /\ Judged(p) /\ Gated(p) /\ Vetoed(p) /\ Kept(p)

(* No prompt is bound by a rule that is gone, and whatever was granted was  *)
(* asked for.                                                               *)
LawIsKnown == \A p \in Prompt, c \in Call : story[p].law[c] \subseteq rules[c]

PromptInv == PromptTypeOK /\ LawIsKnown /\ grants \subseteq approved /\ \A p \in Prompt : PromptOK(p)

-----------------------------------------------------------------------------
LEMMA KeptSuffices == PromptInv => GatesHold
<1> SUFFICES ASSUME PromptInv PROVE GatesHold
  OBVIOUS
<1>1. DenyHolds
  BY DEF PromptInv, PromptOK, Kept, Excused, DenyHolds, Bound
<1>2. ConfirmedOnly
  BY DEF PromptInv, PromptOK, Kept, Excused, ConfirmedOnly, Bound, Unasked, Remembers
<1>3. AllOrNothing
  BY DEF PromptInv, PromptOK, Vetoed, AllOrNothing
<1> QED BY <1>1, <1>2, <1>3 DEF GatesHold

(* What a prompt that goes on, or ends, leaves behind                       *)
LEMMA Going ==
  ASSUME PromptTypeOK, NEW p \in Prompt, NEW place \in Places, NEW calls \in SUBSET Call, Go(p, place, calls)
  PROVE  /\ steps' \in [Prompt -> [input : Inputs, at : Places, calls : SUBSET Call, asked : SUBSET Tool]]
         /\ steps'[p] = [input |-> steps[p].input, at |-> place, calls |-> calls, asked |-> {}]
         /\ \A q \in Prompt : q # p => steps'[q] = steps[q]
<1> DEFINE Step == [input : Inputs, at : Places, calls : SUBSET Call, asked : SUBSET Tool]
           next == [input |-> steps[p].input, at |-> place, calls |-> calls, asked |-> {}]
<1>1. steps \in [Prompt -> Step]
  BY DEF PromptTypeOK
<1>2. steps[p] = [input |-> steps[p].input, at |-> steps[p].at, calls |-> steps[p].calls, asked |-> steps[p].asked]
  BY <1>1
<1>3. /\ steps'[p] = next /\ DOMAIN steps' = Prompt
      /\ \A q \in Prompt : q # p => steps'[q] = steps[q]
      /\ steps' = [q \in Prompt |-> steps'[q]]
  <2>1. steps' = [steps EXCEPT ![p].at = place, ![p].calls = calls, ![p].asked = {}]
    BY DEF Go
  <2>2. steps' = [q \in Prompt |-> IF q = p THEN [steps[p] EXCEPT !.at = place, !.calls = calls, !.asked = {}] ELSE steps[q]]
    BY <1>1, <2>1
  <2>3. [steps[p] EXCEPT !.at = place, !.calls = calls, !.asked = {}] = next
    <3> DEFINE r   == steps[p]
               one == [r EXCEPT !.at = place]
               two == [one EXCEPT !.calls = calls]
               all == [two EXCEPT !.asked = {}]
    <3>1. one = [input |-> r.input, at |-> place, calls |-> r.calls, asked |-> r.asked]
      BY <1>1
    <3>2. [r EXCEPT !.at = place, !.calls = calls, !.asked = {}] = all
      OBVIOUS
    <3> HIDE DEF one
    <3>3. two = [input |-> r.input, at |-> place, calls |-> calls, asked |-> r.asked]
      BY <3>1
    <3> HIDE DEF two
    <3>4. all = next
      BY <3>3
    <3> QED BY <3>2, <3>4
  <2> QED BY <2>2, <2>3
<1>4. next \in Step
  BY <1>1
<1> QED BY <1>1, <1>3, <1>4

LEMMA Ending ==
  ASSUME PromptTypeOK, NEW p \in Prompt, End(p)
  PROVE  /\ steps' \in [Prompt -> [input : Inputs, at : Places, calls : SUBSET Call, asked : SUBSET Tool]]
         /\ story' \in [Prompt -> [done : SUBSET Call, excused : SUBSET Call, vetoed : SUBSET Call,
                                   law : [Call -> SUBSET Decision]]]
         /\ steps'[p].at = "none" /\ story'[p] = NoStory
         /\ \A q \in Prompt : q # p => steps'[q] = steps[q] /\ story'[q] = story[q]
<1>1. NoStep \in [input : Inputs, at : Places, calls : SUBSET Call, asked : SUBSET Tool] /\ NoStep.at = "none"
  BY PromptAssumption DEF NoStep, Places
<1>2. NoStory \in [done : SUBSET Call, excused : SUBSET Call, vetoed : SUBSET Call, law : [Call -> SUBSET Decision]]
  BY DEF NoStory
<1> HIDE DEF NoStep, NoStory
<1> QED BY <1>1, <1>2 DEF PromptTypeOK, End

LEMMA Crowding ==
  ASSUME BudgetTypeOK, NEW stages, NEW s \in Scope
  PROVE  Crowded(stages) \in [Scope -> 0..Cardinality(Prompt)] /\ Crowded(stages)[s] >= Cardinality(InFlight(stages, s))
         /\ Crowded(stages)[s] >= crowd[s]
<1>1. ASSUME NEW t \in Scope PROVE Cardinality(InFlight(stages, t)) \in 0..Cardinality(Prompt)
  <2>1. InFlight(stages, t) \subseteq Prompt
    BY DEF InFlight
  <2> QED BY <2>1, BudgetAssumption, FS_Subset, FS_CardinalityType
<1>2. crowd \in [Scope -> 0..Cardinality(Prompt)] /\ Cardinality(Prompt) \in Nat
  BY BudgetAssumption, FS_CardinalityType DEF BudgetTypeOK
<1> QED BY <1>1, <1>2 DEF Crowded

LEMMA Goings ==
  ASSUME BudgetTypeOK, NEW p \in Prompt, NEW stage \in Stages, NEW used \in 0..MaxChats, Goes(p, stage, used)
  PROVE  /\ talks' \in [Prompt -> [at : Stages, used : 0..MaxChats]] /\ crowd' \in [Scope -> 0..Cardinality(Prompt)]
         /\ talks'[p] = [at |-> stage, used |-> used]
         /\ \A q \in Prompt : q # p => talks'[q] = talks[q]
<1>1. crowd' \in [Scope -> 0..Cardinality(Prompt)]
  BY Crowding DEF Goes, Scope
<1> QED BY <1>1 DEF BudgetTypeOK, Goes

LEMMA Unmoved ==
  ASSUME PromptTypeOK, NEW q \in Prompt, PromptOK(q), approved \subseteq approved',
         talks'[q] = talks[q], steps'[q] = steps[q], story'[q] = story[q]
  PROVE  PromptOK(q)'
<1> USE DEF PromptOK, Is, Excused, Known, confirmationRequiredFor
<1>1. (Fresh(q) /\ Counted(q) /\ Judged(q) /\ Vetoed(q))'
  BY DEF Fresh, Counted, Judged, Vetoed
<1>2. \A c : Remembers(q, c) => Remembers(q, c)'
  BY DEF Remembers
<1>3. \A c : Unasked(q, c) => Unasked(q, c)'
  BY DEF Unasked
<1> QED BY <1>1, <1>2, <1>3 DEF Gated, Kept

(* A step of one prompt, to be shown action by action                       *)
Moves(p) ==
    /\ PromptTypeOK' /\ LawIsKnown' /\ grants' \subseteq approved' /\ approved \subseteq approved'
    /\ PromptOK(p)'
    /\ \A q \in Prompt : q # p => talks'[q] = talks[q] /\ steps'[q] = steps[q] /\ story'[q] = story[q]

LEMMA Sending == ASSUME PromptInv, NEW p \in Prompt, prompt(p) PROVE Moves(p)
<1> USE PromptAssumption DEF PromptInv
<1>1. PICK i \in Inputs : steps' = [steps EXCEPT ![p].input = i]
  BY DEF prompt
<1>2. /\ talks' \in [Prompt -> [at : Stages, used : 0..MaxChats]] /\ crowd' \in [Scope -> 0..Cardinality(Prompt)]
      /\ talks'[p] = [at |-> "user", used |-> 0] /\ \A q \in Prompt : q # p => talks'[q] = talks[q]
  <2>1. Goes(p, "user", 0) /\ "user" \in Stages /\ 0 \in 0..MaxChats /\ BudgetTypeOK
    BY BudgetAssumption DEF prompt, BeginTalk, PromptTypeOK, Stages
  <2> QED BY <2>1, Goings
<1>3. /\ steps' \in [Prompt -> [input : Inputs, at : Places, calls : SUBSET Call, asked : SUBSET Tool]]
      /\ steps'[p].at = steps[p].at /\ steps'[p].input = i /\ \A q \in Prompt : q # p => steps'[q] = steps[q]
  <2>1. steps \in [Prompt -> [input : Inputs, at : Places, calls : SUBSET Call, asked : SUBSET Tool]]
    BY DEF PromptTypeOK
  <2> QED BY <1>1, <2>1
<1>4. /\ story' \in [Prompt -> [done : SUBSET Call, excused : SUBSET Call, vetoed : SUBSET Call, law : [Call -> SUBSET Decision]]]
      /\ story'[p].law = rules /\ story'[p].done = story[p].done /\ story'[p].vetoed = story[p].vetoed
      /\ \A q \in Prompt : q # p => story'[q] = story[q]
  <2>1. /\ story \in [Prompt -> [done : SUBSET Call, excused : SUBSET Call, vetoed : SUBSET Call, law : [Call -> SUBSET Decision]]]
        /\ rules \in [Call -> SUBSET Decision] /\ story' = [story EXCEPT ![p].law = rules]
    BY DEF prompt, PromptTypeOK
  <2>2. DOMAIN story' = Prompt /\ story'[p] = [story[p] EXCEPT !.law = rules] /\ \A q \in Prompt : q # p => story'[q] = story[q]
    BY <2>1
  <2>3. [story[p] EXCEPT !.law = rules] = [done |-> story[p].done, excused |-> story[p].excused, vetoed |-> story[p].vetoed, law |-> rules]
    BY <2>1
  <2>4. story' = [q \in Prompt |-> story'[q]]
    BY <2>1
  <2> QED BY <2>1, <2>2, <2>3, <2>4
<1>5. PromptTypeOK' /\ LawIsKnown' /\ grants' \subseteq approved' /\ approved \subseteq approved'
  BY <1>2, <1>3, <1>4 DEF prompt, BeginTalk, Settings, PromptTypeOK, BudgetTypeOK, LawIsKnown
<1>6. steps[p].at = "none" /\ story[p].done = {} /\ story[p].vetoed = {}
  BY DEF prompt, BeginTalk, PromptOK, Fresh
<1>7. PromptOK(p)'
  BY <1>2, <1>3, <1>4, <1>6 DEF PromptOK, Fresh, Counted, Judged, Gated, Vetoed, Kept
<1> QED BY <1>2, <1>3, <1>4, <1>5, <1>7 DEF Moves

(* A prompt that ends, whatever its budget has to say about it              *)
LEMMA Leaving ==
  ASSUME PromptInv, NEW p \in Prompt, NEW stage \in {"over", "refused"}, NEW used \in 0..MaxChats, Goes(p, stage, used),
         End(p), Settings, BudgetTypeOK'
  PROVE  Moves(p)
<1> USE DEF PromptInv
<1>1. talks'[p] = [at |-> stage, used |-> used] /\ \A q \in Prompt : q # p => talks'[q] = talks[q]
  BY Goings DEF PromptTypeOK, Stages
<1>2. /\ PromptTypeOK' /\ steps'[p].at = "none" /\ story'[p] = NoStory
      /\ \A q \in Prompt : q # p => steps'[q] = steps[q] /\ story'[q] = story[q]
  BY Ending DEF PromptTypeOK, Settings
<1>3. LawIsKnown' /\ grants' \subseteq approved' /\ approved \subseteq approved'
  BY <1>2 DEF LawIsKnown, Settings, NoStory
<1>4. PromptOK(p)'
  BY <1>1, <1>2 DEF PromptOK, Fresh, Counted, Judged, Gated, Vetoed, Kept, NoStory
<1> QED BY <1>1, <1>2, <1>3, <1>4 DEF Moves

LEMMA Budgeting == ASSUME PromptInv, NEW p \in Prompt, assertWithinBudget(p) PROVE Moves(p)
<1> USE BudgetAssumption DEF PromptInv
<1>1. PICK stage \in {"refused", "tenant", "talking"} :
        /\ Goes(p, stage, 0) /\ UNCHANGED usage
        /\ talks[p].at # "talking"
  BY DEF assertWithinBudget, assertUser, assertTenant
<1>2. /\ talks' \in [Prompt -> [at : Stages, used : 0..MaxChats]] /\ crowd' \in [Scope -> 0..Cardinality(Prompt)]
      /\ talks'[p] = [at |-> stage, used |-> 0] /\ \A q \in Prompt : q # p => talks'[q] = talks[q]
  BY <1>1, Goings DEF PromptTypeOK, Stages
<1>3. BudgetTypeOK' /\ Settings
  BY <1>1, <1>2 DEF BudgetTypeOK, PromptTypeOK, assertWithinBudget
<1>4. steps[p].at = "none" /\ story[p].done = {} /\ story[p].vetoed = {}
  BY <1>1 DEF PromptOK, Fresh
<1>5. CASE stage = "refused"
  BY <1>1, <1>2, <1>3, <1>5, Leaving DEF assertWithinBudget
<1>6. CASE stage = "tenant"
  <2>1. UNCHANGED <<steps, story>>
    BY <1>2, <1>6 DEF assertWithinBudget
  <2>2. PromptTypeOK' /\ LawIsKnown' /\ grants' \subseteq approved' /\ approved \subseteq approved'
    BY <1>3, <2>1 DEF PromptTypeOK, Settings, LawIsKnown
  <2>3. PromptOK(p)'
    BY <1>2, <1>4, <1>6, <2>1 DEF PromptOK, Fresh, Counted, Judged, Gated, Vetoed, Kept
  <2> QED BY <1>2, <2>1, <2>2, <2>3 DEF Moves
<1>7. CASE stage = "talking"
  <2>1. Go(p, "asking", {}) /\ UNCHANGED story
    BY <1>2, <1>7 DEF assertWithinBudget
  <2>2. /\ steps' \in [Prompt -> [input : Inputs, at : Places, calls : SUBSET Call, asked : SUBSET Tool]]
        /\ steps'[p] = [input |-> steps[p].input, at |-> "asking", calls |-> {}, asked |-> {}]
        /\ \A q \in Prompt : q # p => steps'[q] = steps[q]
    <3>1. "asking" \in Places /\ {} \in SUBSET Call
      BY DEF Places
    <3> QED BY <2>1, <3>1, Going
  <2>3. PromptTypeOK' /\ LawIsKnown' /\ grants' \subseteq approved' /\ approved \subseteq approved'
    BY <1>3, <2>1, <2>2 DEF PromptTypeOK, Settings, LawIsKnown
  <2>4. PromptOK(p)'
    BY <1>2, <1>4, <1>7, <2>1, <2>2 DEF PromptOK, Fresh, Counted, Judged, Gated, Vetoed, Kept
  <2> QED BY <1>2, <2>1, <2>2, <2>3, <2>4 DEF Moves
<1> QED BY <1>1, <1>5, <1>6, <1>7

(* What stays true of a prompt that does nothing, and of all the others     *)
LEMMA StillKept ==
  ASSUME PromptInv, NEW p \in Prompt, steps'[p].input = steps[p].input, Settings,
         story'[p].done = story[p].done, story'[p].law = story[p].law, story[p].excused \subseteq story'[p].excused
  PROVE  Kept(p)'
<1>1. Kept(p) /\ approved' = approved
  BY DEF PromptInv, PromptOK, Settings
<1>2. \A c : Unasked(p, c) => Unasked(p, c)'
  BY DEF Unasked, Excused, Is, confirmationRequiredFor
<1>3. \A c : Remembers(p, c) => Remembers(p, c)'
  BY <1>1 DEF Remembers, Is
<1> QED BY <1>1, <1>2, <1>3 DEF Kept, Is, Excused

LEMMA StillTyped ==
  ASSUME PromptInv, NEW p \in Prompt, Settings, UNCHANGED budgetVars, story'[p].law = story[p].law,
         \A q \in Prompt : q # p => story'[q] = story[q],
         steps' \in [Prompt -> [input : Inputs, at : Places, calls : SUBSET Call, asked : SUBSET Tool]],
         story' \in [Prompt -> [done : SUBSET Call, excused : SUBSET Call, vetoed : SUBSET Call, law : [Call -> SUBSET Decision]]]
  PROVE  PromptTypeOK' /\ LawIsKnown' /\ grants' \subseteq approved' /\ approved \subseteq approved'
<1>1. PromptTypeOK'
  BY DEF PromptInv, PromptTypeOK, BudgetTypeOK, Settings, budgetVars
<1>2. LawIsKnown'
  BY DEF PromptInv, LawIsKnown, Settings
<1> QED BY <1>1, <1>2 DEF PromptInv, Settings

LEMMA Chatting == ASSUME PromptInv, NEW p \in Prompt, chat(p) PROVE Moves(p)
<1> USE BudgetAssumption, PromptAssumption DEF PromptInv
<1>1. talks[p].at = "talking" /\ steps[p].at = "asking" /\ Settings /\ UNCHANGED <<story, usage>>
  BY DEF chat, At, Talk
<1>2. talks[p] \in [at : Stages, used : 0..MaxChats] /\ steps[p].input.mode \in {"auto", "plan"}
  BY DEF PromptTypeOK, BudgetTypeOK
<1>3. talks[p].used < MaxChats /\ (Is(p, "plan") => talks[p].used <= 1)
  BY <1>1 DEF PromptOK, Counted
<1>4. Goes(p, "talking", talks[p].used + 1) /\ talks[p].used + 1 \in 0..MaxChats /\ "talking" \in Stages /\ BudgetTypeOK
  BY <1>2, <1>3 DEF chat, Talk, Stages, PromptTypeOK
<1>5. /\ talks' \in [Prompt -> [at : Stages, used : 0..MaxChats]] /\ crowd' \in [Scope -> 0..Cardinality(Prompt)]
      /\ talks'[p] = [at |-> "talking", used |-> talks[p].used + 1] /\ \A q \in Prompt : q # p => talks'[q] = talks[q]
  BY <1>4, Goings
<1>6. PICK place \in Places, calls \in SUBSET Call :
        /\ Go(p, place, calls)
        /\ \/ Is(p, "auto") /\ place \in {"judging", "closing"}
           \/ Is(p, "auto") /\ place = "asking" /\ talks[p].used + 1 < MaxChats
           \/ Is(p, "plan") /\ place = "authorizing" /\ talks[p].used = 0
           \/ Is(p, "plan") /\ place = "closing" /\ talks[p].used > 0
  <2> USE DEF Places
  <2>1. CASE Is(p, "auto")
    <3>1. PICK batch \in Batches : IF batch # {} THEN Go(p, "judging", batch)
                                   ELSE Go(p, "closing", {}) \/ (talks'[p].used < MaxChats /\ Go(p, "asking", {}))
      BY <2>1 DEF chat, Is
    <3> QED BY <1>5, <2>1, <3>1
  <2>2. CASE Is(p, "plan") /\ talks[p].used = 0
    <3>1. PICK batch \in Batches : Go(p, "authorizing", batch)
      BY <2>2 DEF chat, Is
    <3> QED BY <2>2, <3>1
  <2>3. CASE Is(p, "plan") /\ talks[p].used > 0
    <3>2. talks[p].used # 0 /\ ~ Is(p, "auto")
      BY <1>2, <2>3 DEF Is
    <3>1. Go(p, "closing", {})
      BY <2>3, <3>2 DEF chat
    <3> QED BY <2>3, <3>1
  <2> QED BY <1>2, <2>1, <2>2, <2>3 DEF Is
<1>7. /\ steps' \in [Prompt -> [input : Inputs, at : Places, calls : SUBSET Call, asked : SUBSET Tool]]
      /\ steps'[p] = [input |-> steps[p].input, at |-> place, calls |-> calls, asked |-> {}]
      /\ \A q \in Prompt : q # p => steps'[q] = steps[q]
  BY <1>6, Going
<1>8. PromptTypeOK' /\ LawIsKnown' /\ grants' \subseteq approved' /\ approved \subseteq approved'
  BY <1>1, <1>5, <1>7 DEF PromptTypeOK, BudgetTypeOK, Settings, LawIsKnown
<1>9. PromptOK(p)'
  <2>1. Fresh(p)' /\ Counted(p)' /\ Judged(p)' /\ Gated(p)'
    BY <1>1, <1>2, <1>3, <1>5, <1>6, <1>7 DEF Fresh, Counted, Judged, Gated, Is
  <2>2. Vetoed(p)'
    <3>1. Vetoed(p)
      BY DEF PromptOK
    <3>2. talks'[p].used # 0 /\ story' = story /\ steps'[p].input = steps[p].input /\ steps'[p].at = place
      BY <1>1, <1>2, <1>5, <1>7
    <3>3. Is(p, "plan") => (place = "authorizing" /\ talks[p].used = 0) \/ place = "closing"
      BY <1>6 DEF Is
    <3> HIDE DEF PromptInv
    <3> QED BY <1>1, <3>1, <3>2, <3>3 DEF Vetoed, Is
  <2>3. Kept(p)'
    BY <1>1, <1>7, StillKept
  <2> QED BY <2>1, <2>2, <2>3 DEF PromptOK
<1> QED BY <1>1, <1>5, <1>7, <1>8, <1>9 DEF Moves

LEMMA Dropping == ASSUME PromptInv, NEW p \in Prompt, DropTalk(p), End(p), Settings PROVE Moves(p)
<1> USE DEF PromptInv
<1>1. /\ Goes(p, "over", talks[p].used) /\ talks[p].used \in 0..MaxChats /\ "over" \in Stages /\ BudgetTypeOK
      /\ UNCHANGED usage
  BY DEF DropTalk, Stages, PromptTypeOK, BudgetTypeOK
<1>2. talks' \in [Prompt -> [at : Stages, used : 0..MaxChats]] /\ crowd' \in [Scope -> 0..Cardinality(Prompt)]
  BY <1>1, Goings
<1>3. BudgetTypeOK'
  BY <1>1, <1>2 DEF BudgetTypeOK
<1> QED BY <1>1, <1>3, Leaving

LEMMA Recording == ASSUME PromptInv, NEW p \in Prompt, RecordTalk(p), End(p), Settings PROVE Moves(p)
<1> USE DEF PromptInv
<1>1. Goes(p, "over", talks[p].used) /\ talks[p].used \in 0..MaxChats /\ "over" \in Stages /\ BudgetTypeOK
  BY DEF RecordTalk, Stages, PromptTypeOK, BudgetTypeOK
<1>2. talks' \in [Prompt -> [at : Stages, used : 0..MaxChats]] /\ crowd' \in [Scope -> 0..Cardinality(Prompt)]
  BY <1>1, Goings
<1>3. usage' \in [Scope -> [Quantity -> Nat]]
  <2>1. ASSUME NEW s \in Scope PROVE usage'[s] \in [Quantity -> Nat]
    <3>1. \A q \in Quantity : usage[s][q] + Uses(p, q) \in Nat
      BY <1>1, BudgetAssumption DEF BudgetTypeOK, Uses
    <3>2. usage'[s] = IF s \in ScopesOf(p) THEN [q \in Quantity |-> usage[s][q] + Uses(p, q)] ELSE usage[s]
      BY DEF RecordTalk
    <3> QED BY <1>1, <3>1, <3>2 DEF BudgetTypeOK
  <2> QED BY <2>1 DEF RecordTalk
<1>4. BudgetTypeOK'
  BY <1>2, <1>3 DEF BudgetTypeOK
<1> QED BY <1>1, <1>4, Leaving

LEMMA Judging == ASSUME PromptInv, NEW p \in Prompt, evaluateToolPolicies(p) PROVE Moves(p)
<1> USE DEF PromptInv
<1> DEFINE calls == steps[p].calls
<1>1. /\ talks[p].at = "talking" /\ steps[p].at = "judging" /\ Settings /\ UNCHANGED budgetVars
      /\ steps[p] \in [input : Inputs, at : Places, calls : SUBSET Call, asked : SUBSET Tool]
      /\ story[p] \in [done : SUBSET Call, excused : SUBSET Call, vetoed : SUBSET Call, law : [Call -> SUBSET Decision]]
  BY DEF evaluateToolPolicies, At, PromptTypeOK
<1>2. Is(p, "auto")
  BY <1>1 DEF PromptOK, Counted
<1>3. PICK failed \in SUBSET Known(steps[p].calls) :
          LET judged == Known(steps[p].calls) \ failed
              denied == {c \in judged : evaluate(c) = "deny"}
              asked  == {c \in judged : evaluate(c) = "ask"}
          IN  /\ story' = [story EXCEPT ![p].excused = @ \cup {c \in failed : story[p].law[c] # {}}]
              /\ IF denied # {} THEN Go(p, "closing", {})
                 ELSE steps' = [steps EXCEPT ![p].at = "gating", ![p].asked = {ToolOf[c] : c \in asked}]
  BY DEF evaluateToolPolicies
<1> DEFINE judged == Known(steps[p].calls) \ failed
           denied == {c \in judged : evaluate(c) = "deny"}
           asked  == {c \in judged : evaluate(c) = "ask"}
           spared == {c \in failed : story[p].law[c] # {}}
<1>4. failed \subseteq Call /\ Known(steps[p].calls) \subseteq Call
  BY <1>1 DEF Known
<1>5. /\ DOMAIN story' = Prompt /\ story' = [q \in Prompt |-> story'[q]]
      /\ story'[p] = [done |-> story[p].done, excused |-> story[p].excused \cup spared, vetoed |-> story[p].vetoed, law |-> story[p].law]
      /\ \A q \in Prompt : q # p => story'[q] = story[q]
  <2>1. story' = [story EXCEPT ![p].excused = @ \cup spared]
    BY <1>3
  <2>2. story \in [Prompt -> [done : SUBSET Call, excused : SUBSET Call, vetoed : SUBSET Call, law : [Call -> SUBSET Decision]]]
    BY DEF PromptTypeOK
  <2> HIDE DEF spared
  <2> QED BY <2>1, <2>2
<1>6. story' \in [Prompt -> [done : SUBSET Call, excused : SUBSET Call, vetoed : SUBSET Call, law : [Call -> SUBSET Decision]]]
  <2>1. spared \subseteq Call
    BY <1>4
  <2>2. \A q \in Prompt : story[q] \in [done : SUBSET Call, excused : SUBSET Call, vetoed : SUBSET Call, law : [Call -> SUBSET Decision]]
    BY DEF PromptTypeOK
  <2> HIDE DEF spared
  <2> QED BY <1>1, <1>5, <2>1, <2>2
<1>7. CASE denied # {}
  <2>1. Go(p, "closing", {}) /\ "closing" \in Places /\ {} \in SUBSET Call
    BY <1>3, <1>7 DEF Places
  <2>2. /\ steps' \in [Prompt -> [input : Inputs, at : Places, calls : SUBSET Call, asked : SUBSET Tool]]
        /\ steps'[p] = [input |-> steps[p].input, at |-> "closing", calls |-> {}, asked |-> {}]
        /\ \A q \in Prompt : q # p => steps'[q] = steps[q]
    BY <2>1, Going
  <2> HIDE DEF spared, denied
  <2>3. PromptTypeOK' /\ LawIsKnown' /\ grants' \subseteq approved' /\ approved \subseteq approved'
    BY <1>1, <1>5, <1>6, <2>2, StillTyped
  <2>4. PromptOK(p)'
    <3>1. Kept(p)'
      BY <1>1, <1>5, <2>2, StillKept
    <3> QED BY <1>1, <1>2, <1>5, <2>2, <3>1 DEF PromptOK, Is, Fresh, Counted, Judged, Gated, Vetoed, budgetVars
  <2> QED BY <1>1, <1>5, <2>2, <2>3, <2>4 DEF Moves, budgetVars
<1>8. CASE denied = {}
  <2>1. steps' = [steps EXCEPT ![p].at = "gating", ![p].asked = {ToolOf[c] : c \in asked}]
    BY <1>3, <1>8
  <2>2. {ToolOf[c] : c \in asked} \in SUBSET Tool
    BY <1>4 DEF Tool
  <2>3. \A c \in Known(steps[p].calls) : \/ (c \in failed /\ (story[p].law[c] = {} \/ c \in spared))
                                        \/ (c \in judged /\ "deny" \notin rules[c] /\ ("ask" \in rules[c] => c \in asked))
    <3> SUFFICES ASSUME NEW c \in Known(steps[p].calls), c \notin failed PROVE "deny" \notin rules[c] /\ ("ask" \in rules[c] => c \in asked)
      OBVIOUS
    <3>1. c \in judged /\ evaluate(c) # "deny"
      BY <1>8
    <3> QED BY <3>1 DEF evaluate
  <2>4. /\ steps' \in [Prompt -> [input : Inputs, at : Places, calls : SUBSET Call, asked : SUBSET Tool]]
        /\ steps'[p] = [input |-> steps[p].input, at |-> "gating", calls |-> steps[p].calls, asked |-> {ToolOf[c] : c \in asked}]
        /\ \A q \in Prompt : q # p => steps'[q] = steps[q]
    <3> DEFINE tools == {ToolOf[c] : c \in asked}
               next == [input |-> steps[p].input, at |-> "gating", calls |-> steps[p].calls, asked |-> tools]
    <3> HIDE DEF tools
    <3>1. steps \in [Prompt -> [input : Inputs, at : Places, calls : SUBSET Call, asked : SUBSET Tool]] /\ "gating" \in Places
      BY DEF PromptTypeOK, Places
    <3>2. steps' = [q \in Prompt |-> IF q = p THEN [steps[p] EXCEPT !.at = "gating", !.asked = tools] ELSE steps[q]]
      BY <2>1, <3>1 DEF tools
    <3>3. [steps[p] EXCEPT !.at = "gating", !.asked = tools] = next
      <4> DEFINE one == [steps[p] EXCEPT !.at = "gating"]
                 two == [one EXCEPT !.asked = tools]
      <4>1. one = [input |-> steps[p].input, at |-> "gating", calls |-> steps[p].calls, asked |-> steps[p].asked]
        BY <1>1
      <4>2. [steps[p] EXCEPT !.at = "gating", !.asked = tools] = two
        OBVIOUS
      <4> HIDE DEF one
      <4>3. two = next
        BY <4>1
      <4> QED BY <4>2, <4>3
    <3>4. next \in [input : Inputs, at : Places, calls : SUBSET Call, asked : SUBSET Tool]
      BY <1>1, <2>2, <3>1 DEF tools
    <3> HIDE DEF next
    <3>5. steps'[p] = next /\ steps' \in [Prompt -> [input : Inputs, at : Places, calls : SUBSET Call, asked : SUBSET Tool]]
          /\ \A q \in Prompt : q # p => steps'[q] = steps[q]
      BY <3>1, <3>2, <3>3, <3>4
    <3> QED BY <3>5 DEF next, tools
  <2>5. \A c \in Known(steps[p].calls) : Excused(p, c, "deny")' /\ (Excused(p, c, "ask")' \/ ToolOf[c] \in steps'[p].asked)
    <3> SUFFICES ASSUME NEW c \in Known(steps[p].calls) PROVE Excused(p, c, "deny")' /\ (Excused(p, c, "ask")' \/ ToolOf[c] \in steps'[p].asked)
      OBVIOUS
    <3>1. story[p].law[c] \subseteq rules[c]
      BY <1>4 DEF LawIsKnown
    <3>2. CASE c \in failed /\ (story[p].law[c] = {} \/ c \in spared)
      BY <1>5, <3>2 DEF Excused
    <3>3. CASE c \in judged /\ "deny" \notin rules[c] /\ ("ask" \in rules[c] => c \in asked)
      BY <1>5, <2>4, <3>1, <3>3 DEF Excused
    <3> QED BY <2>3, <3>2, <3>3
  <2> HIDE DEF spared, denied, judged, asked
  <2>6. PromptTypeOK' /\ LawIsKnown' /\ grants' \subseteq approved' /\ approved \subseteq approved'
    BY <1>1, <1>5, <1>6, <2>4, StillTyped
  <2>7. PromptOK(p)'
    <3>1. (Fresh(p) /\ Counted(p) /\ Gated(p) /\ Vetoed(p))'
      BY <1>1, <1>2, <1>5, <2>4 DEF PromptOK, Is, Fresh, Counted, Gated, Vetoed, budgetVars
    <3>2. Judged(p)'
      BY <1>1, <1>5, <2>4, <2>5 DEF Judged, Known
    <3>3. Kept(p)'
      BY <1>1, <1>5, <2>4, StillKept
    <3> QED BY <3>1, <3>2, <3>3 DEF PromptOK
  <2> QED BY <1>1, <1>5, <2>4, <2>6, <2>7 DEF Moves, budgetVars
<1> QED BY <1>7, <1>8

LEMMA Gating == ASSUME PromptInv, NEW p \in Prompt, Gate(p) PROVE Moves(p)
<1> USE DEF PromptInv
<1> DEFINE calls == steps[p].calls
           blocked == {c \in Known(calls) : /\ \/ ToolOf[c] \in steps[p].asked
                                               \/ confirmationRequiredFor(ToolOf[c], steps[p].input)
                                            /\ ~ steps[p].input.confirm}
<1>1. /\ talks[p].at = "talking" /\ steps[p].at = "gating" /\ Settings /\ UNCHANGED <<budgetVars, story>>
      /\ calls \in SUBSET Call /\ story \in [Prompt -> [done : SUBSET Call, excused : SUBSET Call, vetoed : SUBSET Call, law : [Call -> SUBSET Decision]]]
  BY DEF Gate, At, PromptTypeOK
<1>2. Is(p, "auto") /\ \A c \in Known(calls) : Excused(p, c, "deny") /\ (Excused(p, c, "ask") \/ ToolOf[c] \in steps[p].asked)
  BY <1>1 DEF PromptOK, Counted, Judged
<1>3. PICK place \in {"running", "closing"}, left \in {calls, {}} :
        /\ Go(p, place, left)
        /\ place = "running" => left = calls /\ \A c \in blocked : Spared(p, c)
  BY DEF Gate
<1>4. /\ steps' \in [Prompt -> [input : Inputs, at : Places, calls : SUBSET Call, asked : SUBSET Tool]]
      /\ steps'[p] = [input |-> steps[p].input, at |-> place, calls |-> left, asked |-> {}]
      /\ \A q \in Prompt : q # p => steps'[q] = steps[q]
  <2>1. place \in Places /\ left \in SUBSET Call
    BY <1>1 DEF Places
  <2> QED BY <1>3, <2>1, Going
<1>5. \A c : Spared(p, c) => Remembers(p, c)'
  <2> SUFFICES ASSUME NEW c, Spared(p, c) PROVE Remembers(p, c)'
    OBVIOUS
  <2>1. PICK g \in grants : g.tool = ToolOf[c] /\ g.scope \in ScopesOf(p)
    BY DEF Spared
  <2>2. grants \subseteq [tool : Tool, scope : Scope] /\ grants \subseteq approved'
    BY <1>1 DEF PromptTypeOK, Settings
  <2>3. g = [tool |-> ToolOf[c], scope |-> g.scope]
    BY <2>1, <2>2
  <2> QED BY <1>2, <1>4, <2>1, <2>2, <2>3 DEF Remembers, Is, Spared
<1>6. \A c : Unasked(p, c) => Unasked(p, c)'
  BY <1>1, <1>4 DEF Unasked, Excused, Is, confirmationRequiredFor
<1>7. Gated(p)'
  <2> SUFFICES ASSUME place = "running", ~ steps[p].input.confirm, NEW c \in Known(calls) PROVE Unasked(p, c)' \/ Remembers(p, c)'
    BY <1>3, <1>4 DEF Gated, Known
  <2>1. CASE c \in blocked
    BY <1>3, <1>5, <2>1
  <2>2. CASE c \notin blocked
    <3>1. Unasked(p, c)
      BY <1>2, <2>2 DEF Unasked
    <3> QED BY <1>6, <3>1
  <2> QED BY <2>1, <2>2
<1> HIDE DEF blocked, calls
<1>8. PromptTypeOK' /\ LawIsKnown' /\ grants' \subseteq approved' /\ approved \subseteq approved'
  BY <1>1, <1>4, StillTyped
<1>9. Kept(p)'
  BY <1>1, <1>4, StillKept
<1>10. Judged(p)'
  BY <1>1, <1>2, <1>3, <1>4 DEF Judged, Known, Excused, calls
<1>11. (Fresh(p) /\ Counted(p) /\ Vetoed(p))'
  BY <1>1, <1>2, <1>3, <1>4 DEF Fresh, Counted, Vetoed, Is, budgetVars
<1> QED BY <1>1, <1>4, <1>7, <1>8, <1>9, <1>10, <1>11 DEF Moves, PromptOK, budgetVars

LEMMA Authorizing == ASSUME PromptInv, NEW p \in Prompt, Authorize(p) PROVE Moves(p)
<1> USE DEF PromptInv
<1> DEFINE calls   == steps[p].calls
           refused == {c \in calls : ~ authorizeCall(c)}
           pending == {c \in calls : confirmationRequiredFor(ToolOf[c], steps[p].input)}
<1>1. /\ talks[p].at = "talking" /\ steps[p].at = "authorizing" /\ Settings /\ calls \in SUBSET Call
      /\ story \in [Prompt -> [done : SUBSET Call, excused : SUBSET Call, vetoed : SUBSET Call, law : [Call -> SUBSET Decision]]]
  BY DEF Authorize, At, PromptTypeOK
<1>2. Is(p, "plan") /\ talks[p].used = 1 /\ story[p].done = {} /\ story[p].vetoed = {} /\ MaxChats >= 2
  BY <1>1, PromptAssumption DEF PromptOK, Counted, Vetoed
<1>3. CASE refused = {} /\ pending # {} /\ ~ steps[p].input.confirm
  BY <1>1, <1>3, Dropping DEF Authorize
<1>4. CASE ~ (refused = {} /\ pending # {} /\ ~ steps[p].input.confirm)
  <2>1. PICK place \in {"running", "asking", "closing"}, left \in {calls, {}} :
          /\ Go(p, place, left)
          /\ place # "closing" => refused = {} /\ left = calls
    BY <1>4 DEF Authorize
  <2>2. /\ steps' \in [Prompt -> [input : Inputs, at : Places, calls : SUBSET Call, asked : SUBSET Tool]]
        /\ steps'[p] = [input |-> steps[p].input, at |-> place, calls |-> left, asked |-> {}]
        /\ \A q \in Prompt : q # p => steps'[q] = steps[q]
    <3>1. place \in Places /\ left \in SUBSET Call
      BY <1>1 DEF Places
    <3> QED BY <2>1, <3>1, Going
  <2>3. story' = [story EXCEPT ![p].vetoed = refused] /\ refused \in SUBSET Call /\ UNCHANGED budgetVars
    BY <1>1, <1>4 DEF Authorize
  <2>4. /\ story'[p] = [done |-> {}, excused |-> story[p].excused, vetoed |-> refused, law |-> story[p].law]
        /\ \A q \in Prompt : q # p => story'[q] = story[q]
        /\ story' \in [Prompt -> [done : SUBSET Call, excused : SUBSET Call, vetoed : SUBSET Call, law : [Call -> SUBSET Decision]]]
    <3> HIDE DEF refused
    <3> QED BY <1>1, <1>2, <2>3
  <2>5. PromptTypeOK' /\ LawIsKnown' /\ grants' \subseteq approved' /\ approved \subseteq approved'
    BY <1>1, <2>2, <2>3, <2>4, StillTyped
  <2>6. Gated(p)'
    <3> SUFFICES ASSUME place = "running", ~ steps[p].input.confirm, NEW c \in calls PROVE Unasked(p, c)'
      BY <2>1, <2>2 DEF Gated, Known
    <3>1. ~ confirmationRequiredFor(ToolOf[c], steps[p].input)
      BY <1>4, <2>1
    <3> QED BY <1>2, <2>2, <3>1 DEF Unasked, Is, confirmationRequiredFor
  <2>7. Vetoed(p)'
    BY <1>2, <2>1, <2>2, <2>3, <2>4 DEF Vetoed, budgetVars
  <2> HIDE DEF refused, pending
  <2>8. (Fresh(p) /\ Counted(p))'
    BY <1>1, <1>2, <2>1, <2>2, <2>3, PromptAssumption, BudgetAssumption DEF Fresh, Counted, Is, budgetVars
  <2>9. (Judged(p) /\ Kept(p))'
    BY <1>2, <2>1, <2>2, <2>4 DEF Judged, Kept, Is
  <2> QED BY <2>2, <2>3, <2>4, <2>5, <2>6, <2>7, <2>8, <2>9 DEF Moves, PromptOK, budgetVars
<1> QED BY <1>3, <1>4

(* A call is done, or not, and the others of its batch are still to do.     *)
LEMMA Running ==
  ASSUME PromptInv, NEW p \in Prompt, talks[p].at = "talking", steps[p].at = "running", UNCHANGED <<budgetVars, rules, forbidden>>,
         NEW left \in SUBSET steps[p].calls, NEW place \in {After(p, left), "closing"}, Go(p, place, left),
         place = "running" => left # {},
         PromptTypeOK', LawIsKnown', grants' \subseteq approved', approved \subseteq approved',
         story'[p].law = story[p].law, story'[p].vetoed = story[p].vetoed, story[p].excused \subseteq story'[p].excused,
         \A q \in Prompt : q # p => story'[q] = story[q],
         NEW did \in SUBSET Call, story'[p].done = story[p].done \cup did,
         \A d \in did : /\ Is(p, "auto") => Excused(p, d, "deny")'
                        /\ ~ steps[p].input.confirm => Unasked(p, d)' \/ Remembers(p, d)'
  PROVE  Moves(p)
<1> USE DEF PromptInv
<1>1. steps[p].calls \in SUBSET Call /\ talks[p] \in [at : Stages, used : 0..MaxChats]
  BY DEF PromptTypeOK, BudgetTypeOK
<1>2. place \in {"running", "asking", "closing"} /\ (place = "asking" => Is(p, "plan") \/ talks[p].used < MaxChats)
  BY DEF After
<1>3. /\ steps'[p] = [input |-> steps[p].input, at |-> place, calls |-> left, asked |-> {}]
      /\ \A q \in Prompt : q # p => steps'[q] = steps[q]
  <2>1. place \in Places /\ left \in SUBSET Call
    BY <1>1, <1>2 DEF Places
  <2> QED BY <2>1, Going
<1>4. \A c : (Remembers(p, c) => Remembers(p, c)') /\ (Unasked(p, c) => Unasked(p, c)')
  BY <1>3 DEF Remembers, Unasked, Excused, Is, confirmationRequiredFor
<1>5. (Fresh(p) /\ Counted(p) /\ Vetoed(p))'
  <2>1. Fresh(p)' /\ talks'[p] = talks[p]
    BY <1>3 DEF Fresh, budgetVars
  <2>2. Is(p, "plan") => talks[p].used = 1 /\ story[p].vetoed = {}
    BY DEF PromptOK, Counted, Vetoed
  <2>3. Counted(p)'
    BY <1>1, <1>2, <1>3, <2>1, <2>2, PromptAssumption, BudgetAssumption DEF Counted, Is
  <2>4. Vetoed(p)'
    BY <1>2, <1>3, <2>1, <2>2 DEF Vetoed, Is
  <2> QED BY <2>1, <2>3, <2>4
<1>6. Judged(p)' /\ Gated(p)'
  BY <1>2, <1>3, <1>4 DEF PromptOK, Judged, Gated, Excused, Is, Known
<1>7. Kept(p)'
  BY <1>3, <1>4 DEF PromptOK, Kept, Excused, Is
<1> QED BY <1>3, <1>5, <1>6, <1>7 DEF Moves, PromptOK, budgetVars

LEMMA Skipping == ASSUME PromptInv, NEW p \in Prompt, NEW c \in Call, Skip(p, c) PROVE Moves(p)
<1> DEFINE left == steps[p].calls \ {c}
<1>1. /\ talks[p].at = "talking" /\ steps[p].at = "running" /\ Settings /\ UNCHANGED <<budgetVars, story>>
      /\ Go(p, After(p, left), left) /\ left \in SUBSET steps[p].calls /\ steps[p].calls \in SUBSET Call
      /\ story \in [Prompt -> [done : SUBSET Call, excused : SUBSET Call, vetoed : SUBSET Call, law : [Call -> SUBSET Decision]]]
  BY DEF Skip, At, PromptInv, PromptTypeOK
<1>2. (After(p, left) = "running" => left # {}) /\ After(p, left) \in Places
  BY DEF After, Places
<1> HIDE DEF left
<1>3. steps' \in [Prompt -> [input : Inputs, at : Places, calls : SUBSET Call, asked : SUBSET Tool]]
  <2>1. left \in SUBSET Call
    BY <1>1
  <2> QED BY <1>1, <1>2, <2>1, Going DEF PromptInv
<1>4. PromptTypeOK' /\ LawIsKnown' /\ grants' \subseteq approved' /\ approved \subseteq approved'
  BY <1>1, <1>3, StillTyped
<1>5. UNCHANGED <<rules, forbidden>>
  BY <1>1 DEF Settings
<1>6. {} \in SUBSET Call /\ story'[p].done = story[p].done \cup {}
  BY <1>1
<1> QED BY <1>1, <1>2, <1>4, <1>5, <1>6, Running

LEMMA Executing == ASSUME PromptInv, NEW p \in Prompt, NEW c \in Call, executeToolCall(p, c) PROVE Moves(p)
<1> USE DEF PromptInv
<1>1. /\ talks[p].at = "talking" /\ steps[p].at = "running" /\ UNCHANGED <<budgetVars, rules, forbidden>>
      /\ steps[p].calls \in SUBSET Call /\ c \in Known(steps[p].calls) /\ steps[p].input \in Inputs
      /\ story \in [Prompt -> [done : SUBSET Call, excused : SUBSET Call, vetoed : SUBSET Call, law : [Call -> SUBSET Decision]]]
  BY DEF executeToolCall, At, PromptTypeOK
<1>2. PICK run \in {d \in Call : ToolOf[d] = ToolOf[c]}, success \in BOOLEAN :
          LET tool  == ToolOf[c]
              ended == tool = Question /\ success /\ Is(p, "auto")
              left  == IF ended THEN {} ELSE steps[p].calls \ {c}
              grant == [tool |-> tool, scope |-> steps[p].input.remember]
          IN  /\ story' = [story EXCEPT ![p].done = @ \cup {run},
                                        ![p].excused = IF run = c \/ story[p].law[run] = {} THEN @ ELSE @ \cup {run}]
              /\ Go(p, IF ended THEN "closing" ELSE After(p, left), left)
              /\ IF success /\ Remembered(p, tool)
                 THEN grants' \in {grants, grants \cup {grant}} /\ approved' = approved \cup {grant}
                 ELSE UNCHANGED <<grants, approved>>
  BY DEF executeToolCall
<1> DEFINE ended == ToolOf[c] = Question /\ success /\ Is(p, "auto")
           left  == IF ended THEN {} ELSE steps[p].calls \ {c}
           place == IF ended THEN "closing" ELSE After(p, left)
           grant == [tool |-> ToolOf[c], scope |-> steps[p].input.remember]
<1>3. /\ Go(p, place, left) /\ left \in SUBSET steps[p].calls /\ left \in SUBSET Call /\ place \in {After(p, left), "closing"}
      /\ place \in Places /\ (place = "running" => left # {})
  BY <1>1, <1>2 DEF After, Places
<1> HIDE DEF ended, left, place
<1>4. PICK excused \in SUBSET Call :
        /\ story'[p] = [done |-> story[p].done \cup {run}, excused |-> excused, vetoed |-> story[p].vetoed, law |-> story[p].law]
        /\ story[p].excused \subseteq excused
        /\ run = c \/ story[p].law[run] = {} \/ run \in excused
        /\ \A q \in Prompt : q # p => story'[q] = story[q]
        /\ story' \in [Prompt -> [done : SUBSET Call, excused : SUBSET Call, vetoed : SUBSET Call, law : [Call -> SUBSET Decision]]]
  <2> DEFINE excused == IF run = c \/ story[p].law[run] = {} THEN story[p].excused ELSE story[p].excused \cup {run}
             next == [done |-> story[p].done \cup {run}, excused |-> excused, vetoed |-> story[p].vetoed, law |-> story[p].law]
  <2>1. story' = [story EXCEPT ![p].done = @ \cup {run}, ![p].excused = excused]
    <3>1. story' = [story EXCEPT ![p].done = @ \cup {run}, ![p].excused = IF run = c \/ story[p].law[run] = {} THEN @ ELSE @ \cup {run}]
      BY <1>2
    <3> QED BY <1>1, <3>1
  <2>2. excused \in SUBSET Call /\ story[p].excused \subseteq excused /\ (run = c \/ story[p].law[run] = {} \/ run \in excused)
    BY <1>1
  <2> HIDE DEF excused
  <2>3. story' = [q \in Prompt |-> IF q = p THEN [story[p] EXCEPT !.done = @ \cup {run}, !.excused = excused] ELSE story[q]]
    BY <1>1, <2>1
  <2>4. [story[p] EXCEPT !.done = @ \cup {run}, !.excused = excused] = next
    <3> DEFINE one == [story[p] EXCEPT !.done = @ \cup {run}]
               two == [one EXCEPT !.excused = excused]
    <3>1. one = [done |-> story[p].done \cup {run}, excused |-> story[p].excused, vetoed |-> story[p].vetoed, law |-> story[p].law]
      <4>1. story[p] \in [done : SUBSET Call, excused : SUBSET Call, vetoed : SUBSET Call, law : [Call -> SUBSET Decision]]
        BY <1>1
      <4> QED BY <4>1
    <3>2. [story[p] EXCEPT !.done = @ \cup {run}, !.excused = excused] = two
      OBVIOUS
    <3> HIDE DEF one
    <3>3. two = next
      BY <3>1
    <3> QED BY <3>2, <3>3
  <2>5. next \in [done : SUBSET Call, excused : SUBSET Call, vetoed : SUBSET Call, law : [Call -> SUBSET Decision]]
    BY <1>1, <2>2
  <2> HIDE DEF next
  <2>6. /\ story'[p] = next /\ \A q \in Prompt : q # p => story'[q] = story[q]
        /\ story' \in [Prompt -> [done : SUBSET Call, excused : SUBSET Call, vetoed : SUBSET Call, law : [Call -> SUBSET Decision]]]
    BY <1>1, <2>3, <2>4, <2>5
  <2> QED BY <2>2, <2>6 DEF next
<1>5. steps' \in [Prompt -> [input : Inputs, at : Places, calls : SUBSET Call, asked : SUBSET Tool]] /\ steps'[p].input = steps[p].input
  <2>1. Go(p, place, left) /\ left \in SUBSET Call /\ place \in Places
    BY <1>3
  <2>2. steps'[p] = [input |-> steps[p].input, at |-> place, calls |-> left, asked |-> {}]
    BY <2>1, Going
  <2>3. steps' \in [Prompt -> [input : Inputs, at : Places, calls : SUBSET Call, asked : SUBSET Tool]]
    BY <2>1, Going
  <2> QED BY <2>2, <2>3
<1>6. /\ grants' \subseteq grants \cup (approved' \ approved) \cup (grants' \cap approved') /\ approved \subseteq approved' /\ grants' \subseteq approved'
      /\ grants' \subseteq [tool : Tool, scope : Scope] /\ approved' \subseteq [tool : Tool, scope : Scope]
  <2>1. grants \subseteq [tool : Tool, scope : Scope] /\ approved \subseteq [tool : Tool, scope : Scope]
    BY DEF PromptTypeOK
  <2>2. Remembered(p, ToolOf[c]) => grant \in [tool : Tool, scope : Scope]
    BY <1>1, PromptAssumption DEF Remembered, Tool
  <2> HIDE DEF grant
  <2>3. \/ grants' \in {grants, grants \cup {grant}} /\ approved' = approved \cup {grant} /\ Remembered(p, ToolOf[c])
        \/ UNCHANGED <<grants, approved>>
    BY <1>2 DEF grant
  <2> QED BY <2>1, <2>2, <2>3
<1>7. PromptTypeOK'
  BY <1>1, <1>4, <1>5, <1>6 DEF PromptTypeOK, BudgetTypeOK, budgetVars
<1>8. LawIsKnown'
  BY <1>1, <1>4 DEF LawIsKnown
<1>9. /\ Is(p, "auto") => Excused(p, run, "deny")'
      /\ ~ steps[p].input.confirm => Unasked(p, run)' \/ Remembers(p, run)'
  <2>1. CASE run = c
    <3>1. /\ Is(p, "auto") => Excused(p, c, "deny")
          /\ ~ steps[p].input.confirm => Unasked(p, c) \/ Remembers(p, c)
      BY <1>1 DEF PromptOK, Judged, Gated
    <3> QED BY <1>4, <1>5, <1>6, <2>1, <3>1 DEF Excused, Unasked, Remembers, Is, confirmationRequiredFor
  <2>2. CASE run # c
    <3>1. \A decision : Excused(p, run, decision)'
      BY <1>4, <2>2 DEF Excused
    <3>2. ~ steps[p].input.confirm => Unasked(p, c) \/ Remembers(p, c)
      BY <1>1 DEF PromptOK, Gated
    <3>3. ToolOf[run] = ToolOf[c]
      OBVIOUS
    <3> QED BY <1>5, <1>6, <3>1, <3>2, <3>3 DEF Unasked, Remembers, Is, confirmationRequiredFor
  <2> QED BY <2>1, <2>2
<1>10. /\ {run} \in SUBSET Call /\ story'[p].done = story[p].done \cup {run}
       /\ story'[p].law = story[p].law /\ story'[p].vetoed = story[p].vetoed /\ story[p].excused \subseteq story'[p].excused
  BY <1>4
<1>11. \A d \in {run} : /\ Is(p, "auto") => Excused(p, d, "deny")'
                        /\ ~ steps[p].input.confirm => Unasked(p, d)' \/ Remembers(p, d)'
  BY <1>9
<1> HIDE DEF PromptInv
<1> QED BY <1>1, <1>3, <1>4, <1>6, <1>7, <1>8, <1>10, <1>11, Running

LEMMA PromptStepOK == ASSUME PromptInv, [PromptNext]_promptVars PROVE PromptInv'
<1>1. ASSUME NEW p \in Prompt, PromptStep(p) PROVE PromptInv'
  <2>1. Moves(p)
    <3>1. CASE prompt(p)
      BY <3>1, Sending
    <3>2. CASE assertWithinBudget(p)
      BY <3>2, Budgeting
    <3>3. CASE chat(p)
      BY <3>3, Chatting
    <3>4. CASE Fail(p)
      BY <3>4, Dropping DEF Fail
    <3>5. CASE evaluateToolPolicies(p)
      BY <3>5, Judging
    <3>6. CASE Gate(p)
      BY <3>6, Gating
    <3>7. CASE Authorize(p)
      BY <3>7, Authorizing
    <3>8. CASE audit(p)
      BY <3>8, Dropping, Recording DEF audit
    <3>9. CASE \E c \in Call : Skip(p, c) \/ executeToolCall(p, c)
      BY <3>9, Skipping, Executing
    <3> QED BY <1>1, <3>1, <3>2, <3>3, <3>4, <3>5, <3>6, <3>7, <3>8, <3>9 DEF PromptStep
  <2>2. \A q \in Prompt : q # p => PromptOK(q)'
    BY <2>1, Unmoved DEF Moves, PromptInv
  <2> QED BY <2>1, <2>2 DEF Moves, PromptInv
<1>2. ASSUME NEW c \in Call, ChangeRule(c) PROVE PromptInv'
  <2> USE DEF PromptInv
  <2>1. PICK decisions \in SUBSET Decision : rules' = [rules EXCEPT ![c] = decisions]
    BY <1>2 DEF ChangeRule
  <2>2. \A q \in Prompt : story'[q] = [done |-> story[q].done, excused |-> story[q].excused, vetoed |-> story[q].vetoed, law |-> story'[q].law]
                          /\ story'[q].law = [story[q].law EXCEPT ![c] = @ \cap rules'[c]]
    <3> TAKE q \in Prompt
    <3>1. story'[q] = [story[q] EXCEPT !.law[c] = @ \cap rules'[c]]
      BY <1>2 DEF ChangeRule
    <3>2. story[q] \in [done : SUBSET Call, excused : SUBSET Call, vetoed : SUBSET Call, law : [Call -> SUBSET Decision]]
      BY DEF PromptTypeOK
    <3> QED BY <3>1, <3>2
  <2>3. \A q \in Prompt : story'[q].law \in [Call -> SUBSET Decision] /\ \A d \in Call : story'[q].law[d] \subseteq story[q].law[d] \cap rules'[d]
    <3> TAKE q \in Prompt
    <3>1. story[q].law \in [Call -> SUBSET Decision] /\ rules \in [Call -> SUBSET Decision]
      BY DEF PromptTypeOK
    <3>2. rules' \in [Call -> SUBSET Decision] /\ \A d \in Call : d # c => rules'[d] = rules[d]
      BY <2>1, <3>1
    <3>3. /\ story'[q].law \in [Call -> SUBSET Decision] /\ story'[q].law[c] = story[q].law[c] \cap rules'[c]
          /\ \A d \in Call : d # c => story'[q].law[d] = story[q].law[d]
      BY <2>2, <3>1, <3>2
    <3>4. \A d \in Call : story[q].law[d] \subseteq rules[d]
      BY DEF LawIsKnown
    <3> QED BY <3>2, <3>3, <3>4
  <2>4. UNCHANGED <<budgetVars, forbidden, grants, steps, approved>> /\ story' = [q \in Prompt |-> story'[q]]
    BY <1>2 DEF ChangeRule
  <2>5. PromptTypeOK'
    <3>1. \A q \in Prompt : story'[q] \in [done : SUBSET Call, excused : SUBSET Call, vetoed : SUBSET Call, law : [Call -> SUBSET Decision]]
      <4> TAKE q \in Prompt
      <4>1. story[q] \in [done : SUBSET Call, excused : SUBSET Call, vetoed : SUBSET Call, law : [Call -> SUBSET Decision]]
        BY DEF PromptTypeOK
      <4>2. story[q].done \in SUBSET Call /\ story[q].excused \in SUBSET Call /\ story[q].vetoed \in SUBSET Call
        BY <4>1
      <4>3. story'[q].law \in [Call -> SUBSET Decision]
        BY <2>3
      <4>4. story'[q] = [done |-> story[q].done, excused |-> story[q].excused, vetoed |-> story[q].vetoed, law |-> story'[q].law]
        BY <2>2
      <4> QED BY <4>2, <4>3, <4>4
    <3> QED BY <2>1, <2>4, <3>1 DEF PromptTypeOK, BudgetTypeOK, budgetVars
  <2>6. LawIsKnown'
    BY <2>3 DEF LawIsKnown
  <2>7. \A q \in Prompt : PromptOK(q)'
    <3> TAKE q \in Prompt
    <3>1. /\ story'[q].done = story[q].done /\ story'[q].excused = story[q].excused /\ story'[q].vetoed = story[q].vetoed
          /\ story[q].done \subseteq Call /\ Known(steps[q].calls) \subseteq Call
      <4>1. /\ story[q] \in [done : SUBSET Call, excused : SUBSET Call, vetoed : SUBSET Call, law : [Call -> SUBSET Decision]]
            /\ steps[q].calls \in SUBSET Call
        BY DEF PromptTypeOK
      <4>2. story'[q] = [done |-> story[q].done, excused |-> story[q].excused, vetoed |-> story[q].vetoed, law |-> story'[q].law]
        BY <2>2
      <4> QED BY <4>1, <4>2 DEF Known
    <3>2. \A d \in Call : \A decision : Excused(q, d, decision) => Excused(q, d, decision)'
      BY <2>3, <3>1 DEF Excused
    <3>3. \A d \in Call : (Unasked(q, d) => Unasked(q, d)') /\ (Remembers(q, d) => Remembers(q, d)')
      BY <2>4, <3>2 DEF Unasked, Remembers, Is, confirmationRequiredFor
    <3>4. (Fresh(q) /\ Counted(q) /\ Vetoed(q))'
      BY <2>4, <3>1 DEF PromptOK, Fresh, Counted, Vetoed, Is, budgetVars
    <3>5. (Judged(q) /\ Gated(q) /\ Kept(q))'
      BY <2>4, <3>1, <3>2, <3>3 DEF PromptOK, Judged, Gated, Kept, Is, Known
    <3> QED BY <3>4, <3>5 DEF PromptOK
  <2> QED BY <2>4, <2>5, <2>6, <2>7
<1>3. CASE \E c \in Call : ChangeAccess(c)
  <2>1. PromptTypeOK' /\ UNCHANGED <<budgetVars, rules, grants, steps, story, approved>>
    BY <1>3 DEF ChangeAccess, PromptInv, PromptTypeOK, BudgetTypeOK, budgetVars
  <2> QED BY <2>1, Unmoved DEF PromptInv, LawIsKnown, budgetVars
<1>4. CASE \E g \in grants : Revoke(g)
  <2>1. PromptTypeOK' /\ UNCHANGED <<budgetVars, rules, forbidden, steps, story, approved>> /\ grants' \subseteq grants
    BY <1>4 DEF Revoke, PromptInv, PromptTypeOK, BudgetTypeOK, budgetVars
  <2> QED BY <2>1, Unmoved DEF PromptInv, LawIsKnown, budgetVars
<1>5. CASE PeriodEnds
  <2>1. \A s \in Scope : Cardinality(InFlight(talks, s)) \in 0..Cardinality(Prompt)
    <3> TAKE s \in Scope
    <3>1. InFlight(talks, s) \subseteq Prompt
      BY DEF InFlight
    <3> QED BY <3>1, BudgetAssumption, FS_Subset, FS_CardinalityType
  <2>2. PromptTypeOK' /\ UNCHANGED <<talks, rules, forbidden, grants, steps, story, approved>>
    BY <1>5, <2>1 DEF PeriodEnds, NewPeriod, PromptInv, PromptTypeOK, BudgetTypeOK
  <2> QED BY <2>2, Unmoved DEF PromptInv, LawIsKnown
<1>6. CASE UNCHANGED promptVars
  <2>1. PromptTypeOK'
    BY <1>6 DEF promptVars, PromptInv, PromptTypeOK, BudgetTypeOK
  <2> QED BY <1>6, <2>1, Unmoved DEF PromptInv, LawIsKnown, promptVars
<1> QED BY <1>1, <1>2, <1>3, <1>4, <1>5, <1>6 DEF PromptNext

LEMMA PromptInvariant == PromptSpec => []PromptInv
<1>1. PromptInit => PromptInv
  <2> SUFFICES ASSUME PromptInit PROVE PromptInv
    OBVIOUS
  <2>1. NoStep \in [input : Inputs, at : Places, calls : SUBSET Call, asked : SUBSET Tool] /\ NoStep.at = "none"
    BY PromptAssumption DEF NoStep, Places
  <2>2. NoStory \in [done : SUBSET Call, excused : SUBSET Call, vetoed : SUBSET Call, law : [Call -> SUBSET Decision]]
    BY DEF NoStory
  <2>3. Cardinality(Prompt) \in Nat /\ 0 \in 0..Cardinality(Prompt) /\ 0 \in 0..MaxChats
    BY BudgetAssumption, FS_CardinalityType
  <2>4. BudgetTypeOK
    BY <2>3 DEF PromptInit, BudgetInit, BudgetTypeOK, Stages
  <2>5. PromptTypeOK
    BY <2>1, <2>2, <2>4 DEF PromptInit, PromptTypeOK
  <2>6. LawIsKnown /\ grants \subseteq approved
    BY DEF PromptInit, LawIsKnown, NoStory
  <2>7. ASSUME NEW p \in Prompt PROVE PromptOK(p)
    BY <2>1, <2>7 DEF PromptInit, BudgetInit, PromptOK, Fresh, Counted, Judged, Gated, Vetoed, Kept, NoStory
  <2> QED BY <2>5, <2>6, <2>7 DEF PromptInv
<1>2. PromptInv /\ [PromptNext]_promptVars => PromptInv'
  BY PromptStepOK
<1> QED BY <1>1, <1>2, PTL DEF PromptSpec

(* Whatever happens to rules, grants and permissions while prompts run, a   *)
(* tool that a rule denies, or that asks for a confirmation nobody gave, or *)
(* a step of a plan that was refused, is not run.                           *)
THEOREM GatesHoldCorrect == PromptSpec => []GatesHold
<1> QED BY PromptInvariant, KeptSuffices, PTL

-----------------------------------------------------------------------------
(* Budgets, for any number of prompts and users and any limits.             *)

(* Prompts that have passed the budget of a scope and may still be recorded *)
Past(stages, s) ==
    {p \in Prompt : s \in ScopesOf(p) /\ (stages[p].at = "talking" \/ (s # Tenant /\ stages[p].at = "tenant"))}

(* What is spent, and what may be spent by those who are past the check     *)
Spent(s, q) ==
    usage[s][q] + Most(q) * Cardinality(Past(talks, s)) <= resolveLimit(s, q) - 1 + Most(q) * crowd[s]
BudgetInv == \A s \in Scope, q \in Quantity : finite(resolveLimit(s, q)) => Spent(s, q)

BudgetStep(p) == BeginTalk(p) \/ assertUser(p) \/ assertTenant(p) \/ Talk(p) \/ RecordTalk(p) \/ DropTalk(p)

LEMMA BudgetSteps == [PromptNext]_promptVars => (\E p \in Prompt : BudgetStep(p)) \/ NewPeriod \/ UNCHANGED budgetVars
<1> SUFFICES ASSUME [PromptNext]_promptVars PROVE (\E p \in Prompt : BudgetStep(p)) \/ NewPeriod \/ UNCHANGED budgetVars
  OBVIOUS
<1>1. ASSUME NEW p \in Prompt, PromptStep(p) PROVE BudgetStep(p) \/ UNCHANGED budgetVars
  BY <1>1 DEF PromptStep, BudgetStep, prompt, assertWithinBudget, chat, Fail, evaluateToolPolicies, Gate, Authorize, audit,
              Skip, executeToolCall
<1>2. CASE UNCHANGED promptVars
  BY <1>2 DEF promptVars, budgetVars
<1>3. CASE ~ (\E p \in Prompt : PromptStep(p)) /\ PromptNext
  BY <1>3 DEF PromptNext, ChangeRule, ChangeAccess, Revoke, PeriodEnds
<1> QED BY <1>1, <1>2, <1>3

LEMMA Limits == ASSUME NEW s \in Scope, NEW q \in Quantity PROVE resolveLimit(s, q) \in Int /\ Most(q) \in Nat
BY BudgetAssumption DEF resolveLimit, None, Most

LEMMA PastInFlight ==
  ASSUME NEW stages, NEW s \in Scope
  PROVE  /\ Cardinality(Past(stages, s)) \in Nat /\ Cardinality(InFlight(stages, s)) \in Nat
         /\ Cardinality(Past(stages, s)) <= Cardinality(InFlight(stages, s))
<1>1. Past(stages, s) \subseteq InFlight(stages, s) /\ InFlight(stages, s) \subseteq Prompt
  BY DEF Past, InFlight
<1>2. IsFiniteSet(InFlight(stages, s))
  BY <1>1, BudgetAssumption, FS_Subset
<1> QED BY <1>1, <1>2, FS_Subset, FS_CardinalityType

LEMMA Products ==
  ASSUME NEW m \in Nat, NEW a \in Nat, NEW b \in Nat, a <= b
  PROVE  m * a <= m * b /\ m * a \in Nat /\ m * b \in Nat
<1>1. PICK d \in Nat : b = a + d
  <2>1. b - a \in Nat /\ b = a + (b - a)
    OBVIOUS
  <2> QED BY <2>1
<1>2. m * b = m * a + m * d /\ m * d \in Nat /\ m * a \in Nat
  BY <1>1
<1> QED BY <1>1, <1>2

LEMMA Sums ==
  ASSUME NEW u \in Nat, NEW v \in Nat, v <= u, NEW limit \in Int, NEW m \in Nat, NEW a \in Nat, NEW b \in Nat, NEW c \in Nat, NEW d \in Nat,
         m * b <= m * a, m * c <= m * d, u + m * a <= limit - 1 + m * c
  PROVE  v + m * b <= limit - 1 + m * d
<1> DEFINE p == m * a
           q == m * b
           r == m * c
           t == m * d
<1>1. p \in Nat /\ q \in Nat /\ r \in Nat /\ t \in Nat
  OBVIOUS
<1> SUFFICES v + q <= limit - 1 + t
  OBVIOUS
<1>2. q <= p /\ r <= t /\ u + p <= limit - 1 + r
  OBVIOUS
<1> HIDE DEF p, q, r, t
<1> QED BY <1>1, <1>2

LEMMA BudgetStepOK == ASSUME PromptInv, PromptInv', BudgetInv, [PromptNext]_promptVars PROVE BudgetInv'
<1> SUFFICES ASSUME NEW s \in Scope, NEW q \in Quantity, finite(resolveLimit(s, q)) PROVE Spent(s, q)'
  BY DEF BudgetInv, finite, resolveLimit
<1> DEFINE limit == resolveLimit(s, q)
           n == Cardinality(Past(talks, s))
           next == Cardinality(Past(talks', s))
<1>1. /\ limit \in Int /\ limit > 0 /\ Most(q) \in Nat /\ n \in Nat /\ next \in Nat
      /\ usage[s][q] \in Nat /\ usage'[s][q] \in Nat /\ crowd[s] \in Nat /\ crowd'[s] \in Nat
      /\ usage[s][q] + Most(q) * n <= limit - 1 + Most(q) * crowd[s]
  <2>1. limit \in Int /\ limit > 0 /\ n \in Nat /\ next \in Nat /\ Most(q) \in Nat
    BY Limits, PastInFlight, BudgetAssumption DEF finite
  <2>2. usage[s][q] \in Nat /\ crowd[s] \in Nat
    BY BudgetAssumption, FS_CardinalityType DEF PromptInv, PromptTypeOK, BudgetTypeOK
  <2>3. usage'[s][q] \in Nat /\ crowd'[s] \in Nat
    BY BudgetAssumption, FS_CardinalityType DEF PromptInv, PromptTypeOK, BudgetTypeOK
  <2> QED BY <2>1, <2>2, <2>3 DEF BudgetInv, Spent
<1> SUFFICES usage'[s][q] + Most(q) * next <= limit - 1 + Most(q) * crowd'[s]
  BY DEF Spent, resolveLimit, Past
<1>2. ASSUME NEW p \in Prompt, BudgetStep(p) PROVE usage'[s][q] + Most(q) * next <= limit - 1 + Most(q) * crowd'[s]
  <2>1. PICK stage \in Stages, used \in Int : Goes(p, stage, used)
    <3>1. talks[p].used \in Int /\ talks[p].used + 1 \in Int
      BY DEF PromptInv, PromptTypeOK, BudgetTypeOK
    <3> QED BY <1>2, <3>1 DEF BudgetStep, BeginTalk, assertUser, assertTenant, Talk, RecordTalk, DropTalk, Stages
  <2>2. /\ talks' = [talks EXCEPT ![p] = [at |-> stage, used |-> used]] /\ crowd' = Crowded(talks') /\ p \in DOMAIN talks
        /\ talks \in [Prompt -> [at : Stages, used : 0..MaxChats]]
    BY <2>1 DEF Goes, PromptInv, PromptTypeOK, BudgetTypeOK
  <2>3. crowd'[s] >= Cardinality(InFlight(talks', s)) /\ crowd'[s] >= crowd[s]
    BY <2>2, Crowding DEF PromptInv, PromptTypeOK
  <2>4. next <= crowd'[s]
    BY <1>1, <2>3, PastInFlight
  <2>5. CASE UNCHANGED usage /\ usage[s][q] <= limit - 1
    BY <1>1, <2>4, <2>5, Products
  <2>6. CASE UNCHANGED usage /\ Past(talks', s) \subseteq Past(talks, s)
    <3>1. next <= n
      <4>1. IsFiniteSet(Past(talks, s))
        BY BudgetAssumption, FS_Subset DEF Past
      <4> QED BY <2>6, <4>1, FS_Subset
    <3>2. Most(q) * next <= Most(q) * n /\ Most(q) * crowd[s] <= Most(q) * crowd'[s]
      BY <1>1, <2>3, <3>1, Products
    <3>3. usage'[s][q] <= usage[s][q]
      BY <1>1, <2>6
    <3> HIDE DEF limit, n, next
    <3> QED BY <1>1, <3>2, <3>3, Sums
  <2>7. CASE RecordTalk(p) /\ s \in ScopesOf(p)
    <3>1. usage'[s][q] <= usage[s][q] + Most(q)
      <4>1. usage'[s][q] = usage[s][q] + Uses(p, q)
        BY <2>7 DEF RecordTalk
      <4>2. Uses(p, q) \in Nat /\ Uses(p, q) <= Most(q)
        BY <2>2, BudgetAssumption DEF Uses, Most
      <4> QED BY <1>1, <4>1, <4>2
    <3>2. Past(talks', s) = Past(talks, s) \ {p} /\ p \in Past(talks, s)
      BY <2>2, <2>7 DEF RecordTalk, Goes, Past
    <3>3. next = n - 1
      <4>1. IsFiniteSet(Past(talks, s))
        BY BudgetAssumption, FS_Subset DEF Past
      <4> QED BY <3>2, <4>1, FS_RemoveElement
    <3>4. Most(q) * next + Most(q) = Most(q) * n /\ Most(q) * crowd[s] <= Most(q) * crowd'[s]
      BY <1>1, <2>3, <3>3, Products
    <3>5. usage'[s][q] + Most(q) * next <= usage[s][q] + Most(q) * n
      BY <1>1, <3>1, <3>4, Products
    <3> QED BY <1>1, <3>4, <3>5, Products
  <2>8. CASE RecordTalk(p) /\ s \notin ScopesOf(p)
    <3>1. usage'[s][q] = usage[s][q] /\ Past(talks', s) = Past(talks, s)
      BY <2>2, <2>8 DEF RecordTalk, Past
    <3>2. Most(q) * crowd[s] <= Most(q) * crowd'[s]
      BY <1>1, <2>3, Products
    <3> QED BY <1>1, <3>1, <3>2
  <2>9. CASE ~ RecordTalk(p)
    <3>1. UNCHANGED usage
      BY <1>2, <2>9 DEF BudgetStep, BeginTalk, assertUser, assertTenant, Talk, DropTalk
    <3>2. Past(talks', s) \subseteq Past(talks, s) \/ ~ exceeded(s)
      <4>1. CASE BeginTalk(p) \/ DropTalk(p) \/ Talk(p)
        BY <2>2, <4>1 DEF BeginTalk, DropTalk, Talk, Goes, Past
      <4>2. CASE assertUser(p)
        BY <2>2, <4>2 DEF assertUser, Goes, Past, ScopesOf
      <4>3. CASE assertTenant(p)
        BY <2>2, <4>3 DEF assertTenant, Goes, Past, ScopesOf
      <4> QED BY <1>2, <2>9, <4>1, <4>2, <4>3 DEF BudgetStep
    <3>3. ~ exceeded(s) => usage[s][q] <= limit - 1
      BY <1>1 DEF exceeded, finite
    <3> QED BY <2>5, <2>6, <3>1, <3>2, <3>3
  <2> QED BY <2>7, <2>8, <2>9
<1>3. CASE NewPeriod
  <2>1. usage'[s][q] = 0 /\ crowd'[s] = Cardinality(InFlight(talks, s)) /\ next = n
    BY <1>3 DEF NewPeriod
  <2>2. Most(q) * n <= Most(q) * crowd'[s]
    BY <1>1, <2>1, PastInFlight, Products
  <2> QED BY <1>1, <2>1, <2>2
<1>4. CASE UNCHANGED budgetVars
  BY <1>1, <1>4 DEF budgetVars
<1> QED BY <1>2, <1>3, <1>4, BudgetSteps

(* The prompts of a period spend no more over a limit than what those use   *)
(* that were in flight together.                                            *)
THEOREM OverspendCorrect == PromptSpec => []OverspendBounded
<1>1. PromptInit => BudgetInv
  <2> SUFFICES ASSUME PromptInit, NEW s \in Scope, NEW q \in Quantity, finite(resolveLimit(s, q)) PROVE Spent(s, q)
    BY DEF BudgetInv
  <2>1. Past(talks, s) = {} /\ usage[s][q] = 0 /\ crowd[s] = 0
    BY DEF PromptInit, BudgetInit, Past
  <2>2. Cardinality(Past(talks, s)) = 0 /\ resolveLimit(s, q) \in Int /\ Most(q) \in Nat
    BY <2>1, FS_EmptySet, Limits
  <2>3. Most(q) * 0 = 0
    BY <2>2
  <2> QED BY <2>1, <2>2, <2>3 DEF Spent, finite
<1>2. PromptInv /\ PromptInv' /\ BudgetInv /\ [PromptNext]_promptVars => BudgetInv'
  BY BudgetStepOK
<1>3. PromptInv /\ BudgetInv => OverspendBounded
  <2> SUFFICES ASSUME PromptInv, BudgetInv, NEW s \in Scope, NEW q \in Quantity, finite(resolveLimit(s, q))
               PROVE  usage[s][q] <= resolveLimit(s, q) - 1 + Most(q) * crowd[s]
    BY DEF OverspendBounded
  <2>1. usage[s][q] \in Nat /\ crowd[s] \in Nat /\ resolveLimit(s, q) \in Int /\ Most(q) \in Nat
    BY BudgetAssumption, FS_CardinalityType, Limits DEF PromptInv, PromptTypeOK, BudgetTypeOK
  <2>2. Most(q) * Cardinality(Past(talks, s)) \in Nat /\ Most(q) * crowd[s] \in Nat
    BY <2>1, PastInFlight, Products
  <2> QED BY <2>1, <2>2 DEF BudgetInv, Spent
<1> QED BY <1>1, <1>2, <1>3, PromptInvariant, PTL DEF PromptSpec

-----------------------------------------------------------------------------
(* Connections, for any number of calls, connections and preferences.       *)

LEMMA Merging ==
  ASSUME NEW p \in Patch \cup {Schema}, NEW d \in Doc
  PROVE  /\ Onto(p, d) \in Doc
         /\ Onto(p, d).isDefault => Setting(p) \/ d.isDefault
         /\ Setting(p) \in BOOLEAN
<1>1. DOMAIN p \subseteq {"enabled", "isDefault"} /\ \A f \in DOMAIN p : p[f] \in BOOLEAN
  <2>1. Schema \in Doc
    BY DEF Schema, Doc
  <2>2. \A x \in Doc : DOMAIN x = {"enabled", "isDefault"} /\ x["enabled"] \in BOOLEAN /\ x["isDefault"] \in BOOLEAN
    BY DEF Doc
  <2> QED BY <2>1, <2>2, ConnectionAssumption
<1>2. DOMAIN d = {"enabled", "isDefault"} /\ d["enabled"] \in BOOLEAN /\ d["isDefault"] \in BOOLEAN
  BY DEF Doc
<1>3. Onto(p, d) \in [{"enabled", "isDefault"} -> BOOLEAN]
  BY <1>1, <1>2 DEF Onto
<1>4. Onto(p, d)["isDefault"] = IF "isDefault" \in DOMAIN p THEN p["isDefault"] ELSE d["isDefault"]
  BY <1>2 DEF Onto
<1>5. Onto(p, d) \in Doc
  BY <1>3 DEF Doc
<1> QED BY <1>1, <1>4, <1>5 DEF Setting

LEMMA ConnectionTypes == ConnectionSpec => []ConnectionTypeOK
<1>1. ConnectionInit => ConnectionTypeOK
  <2> SUFFICES ASSUME ConnectionInit PROVE ConnectionTypeOK
    OBVIOUS
  <2>1. Schema \in Doc /\ [Schema EXCEPT !.isDefault = TRUE] \in Doc
    BY DEF Schema, Doc
  <2>2. connections \in [Connection -> Doc]
    BY <2>1 DEF ConnectionInit
  <2>3. NoJob \in [at : {"idle", "write", "unset", "seed", "clean", "prefer", "done"},
                   on : Connection \cup {Nothing}, seen : Doc, input : Patch \cup {Schema},
                   for : Chooser \cup {Nothing}]
    BY <2>1 DEF NoJob
  <2>4. \A c \in Connection : connections[c].isDefault => life[c] = "stored"
    BY DEF ConnectionInit
  <2> QED BY <2>2, <2>3, <2>4 DEF ConnectionInit, ConnectionTypeOK
<1>2. ConnectionTypeOK /\ [ConnectionNext]_connectionVars => ConnectionTypeOK'
  <2> SUFFICES ASSUME ConnectionTypeOK, [ConnectionNext]_connectionVars PROVE ConnectionTypeOK'
    OBVIOUS
  <2> USE DEF ConnectionTypeOK, Does, NowDoes, Because
  <2>0. Schema \in Doc /\ [Schema EXCEPT !.isDefault = TRUE] \in Doc /\ ~ Schema.isDefault
    BY DEF Schema, Doc
  <2>1. ASSUME NEW j \in Job, NEW c \in Connection, NEW input \in Patch, create(j, c, input) PROVE ConnectionTypeOK'
    <3>1. Onto(input, Schema) \in Doc
      BY <2>0, Merging
    <3>2. AfterWrite("create", input) \in {"unset", "done"}
      BY DEF AfterWrite
    <3> QED BY <2>1, <3>1, <3>2 DEF create
  <2>2. ASSUME NEW j \in Job, NEW c \in Connection, NEW input \in Patch, ReadConnection(j, c, input) PROVE ConnectionTypeOK'
    BY <2>0, <2>2 DEF ReadConnection, NoJob
  <2>3. ASSUME NEW j \in Job, WriteConnection(j) PROVE ConnectionTypeOK'
    <3>1. Onto(jobs[j].input, jobs[j].seen) \in Doc
      BY Merging
    <3>2. AfterWrite("update", jobs[j].input) \in {"unset", "done"}
      BY DEF AfterWrite
    <3> QED BY <2>3, <3>1, <3>2 DEF WriteConnection
  <2>4. ASSUME NEW j \in Job, unsetOtherDefaults(j) PROVE ConnectionTypeOK'
    <3>1. \A x \in Doc : [x EXCEPT !.isDefault = FALSE] \in Doc /\ ~ [x EXCEPT !.isDefault = FALSE].isDefault
      BY DEF Doc
    <3> QED BY <2>4, <3>1 DEF unsetOtherDefaults
  <2>5. ASSUME NEW j \in Job, seedDefaultConnection(j) \/ deleteByConnectionId(j) \/ upsertPreference(j) \/ Cut(j)
        PROVE  ConnectionTypeOK'
    BY <2>5 DEF seedDefaultConnection, deleteByConnectionId, upsertPreference, Cut
  <2>6. ASSUME NEW j \in Job, NEW c \in Connection, delete(j, c) PROVE ConnectionTypeOK'
    BY <2>0, <2>6 DEF delete
  <2>9. ASSUME NEW j \in Job, NEW c \in Connection, InsertSeed(j, c) PROVE ConnectionTypeOK'
    BY <2>0, <2>9 DEF InsertSeed
  <2>7. ASSUME NEW j \in Job, NEW c \in Connection, NEW r \in Chooser, setPreference(j, r, c) PROVE ConnectionTypeOK'
    BY <2>0, <2>7 DEF setPreference, NoJob
  <2>8. CASE UNCHANGED connectionVars
    BY <2>8 DEF connectionVars
  <2> QED BY <2>1, <2>2, <2>3, <2>4, <2>5, <2>6, <2>7, <2>8, <2>9 DEF ConnectionNext
<1> QED BY <1>1, <1>2, PTL DEF ConnectionSpec

(* Two defaults: a write that makes one is followed by the request that     *)
(* takes it from the others, and until then the two are excused.            *)
LEMMA DefaultStep ==
  ASSUME ConnectionTypeOK, OneDefault, [ConnectionNext]_connectionVars
  PROVE  OneDefault'
<1> SUFFICES ASSUME spoilt' \subseteq {"late"}, \A j \in Job : ~ Does(j, "unset")',
                    NEW c \in Connection, NEW d \in Connection, connections'[c].isDefault, connections'[d].isDefault
             PROVE  c = d
  BY DEF OneDefault
<1> USE DEF ConnectionTypeOK, Does, NowDoes, Because
<1>0. ~ Schema.isDefault /\ [Schema EXCEPT !.isDefault = TRUE].isDefault
  BY DEF Schema
<1>1. spoilt \subseteq {"late"}
  BY DEF ConnectionNext, connectionVars, create, ReadConnection, WriteConnection, unsetOtherDefaults, seedDefaultConnection,
         InsertSeed, delete, deleteByConnectionId, setPreference, upsertPreference, Cut
<1>2. ASSUME \A j \in Job : ~ Does(j, "unset"),
             \A x \in Connection : connections'[x].isDefault => connections[x].isDefault
      PROVE  c = d
  BY <1>1, <1>2 DEF OneDefault
<1>3. ASSUME NEW j \in Job, NEW e \in Connection, NEW input \in Patch, create(j, e, input) PROVE c = d
  <2>1. ~ Setting(input)
    BY <1>3 DEF create, AfterWrite
  <2>2. ~ Onto(input, Schema).isDefault
    BY <1>0, <2>1, Merging DEF Doc, Schema
  <2> QED BY <1>2, <1>3, <2>2 DEF create
<1>4. ASSUME NEW j \in Job, WriteConnection(j) PROVE c = d
  <2>1. ~ Setting(jobs[j].input)
    BY <1>4 DEF WriteConnection, AfterWrite
  <2> QED BY <1>2, <1>4, <2>1 DEF WriteConnection
<1>5. ASSUME NEW j \in Job, unsetOtherDefaults(j) PROVE c = d
  BY <1>5 DEF unsetOtherDefaults, Doc
<1>6. ASSUME NEW j \in Job, NEW e \in Connection, InsertSeed(j, e) PROVE c = d
  BY <1>6 DEF InsertSeed
<1>7. ASSUME NEW j \in Job, Cut(j) PROVE c = d
  BY <1>2, <1>7 DEF Cut
<1>8. ASSUME NEW j \in Job, NEW e \in Connection, delete(j, e) PROVE c = d
  BY <1>0, <1>2, <1>8 DEF delete
<1>9. CASE UNCHANGED connections /\ \A j \in Job : ~ Does(j, "unset")
  BY <1>2, <1>9
<1>10. ASSUME NEW j \in Job, NEW e \in Connection,
              \/ \E input \in Patch : ReadConnection(j, e, input)
              \/ \E r \in Chooser : setPreference(j, r, e)
       PROVE  c = d
  BY <1>9, <1>10 DEF ReadConnection, setPreference, NoJob
<1>11. ASSUME NEW j \in Job, seedDefaultConnection(j) \/ deleteByConnectionId(j) \/ upsertPreference(j) PROVE c = d
  BY <1>9, <1>11 DEF seedDefaultConnection, deleteByConnectionId, upsertPreference
<1>12. CASE UNCHANGED connectionVars
  BY <1>9, <1>12 DEF connectionVars
<1> QED BY <1>3, <1>4, <1>5, <1>6, <1>7, <1>8, <1>10, <1>11, <1>12 DEF ConnectionNext

(* A deleted connection that is preferred: its deletion is about to clean   *)
(* up, and who chooses it while that is pending is cleaned up with it.      *)
LEMMA DanglingStep ==
  ASSUME ConnectionTypeOK, NoneDangling, [ConnectionNext]_connectionVars
  PROVE  NoneDangling'
<1> SUFFICES ASSUME spoilt' \cap {"late", "cut"} = {}, NEW r \in Chooser, preferences'[r] # Nothing,
                    life'[preferences'[r]] = "deleted"
             PROVE  ~ Cleaned(preferences[r])'
  BY DEF NoneDangling
<1> USE DEF ConnectionTypeOK, Does, NowDoes, Because, Cleaned
<1>1. spoilt \cap {"late", "cut"} = {}
  BY DEF ConnectionNext, connectionVars, create, ReadConnection, WriteConnection, unsetOtherDefaults, seedDefaultConnection,
         InsertSeed, delete, deleteByConnectionId, setPreference, upsertPreference, Cut
<1>2. ASSUME UNCHANGED preferences, life[preferences[r]] = "deleted",
             \A j \in Job : Does(j, "clean") => Does(j, "clean")' /\ jobs'[j].on = jobs[j].on
      PROVE  ~ Cleaned(preferences[r])'
  BY <1>1, <1>2 DEF NoneDangling
<1>3. ASSUME NEW j \in Job, NEW c \in Connection, delete(j, c) PROVE ~ Cleaned(preferences[r])'
  <2>1. CASE preferences[r] = c
    BY <1>3, <2>1 DEF delete
  <2>2. CASE preferences[r] # c
    BY <1>2, <1>3, <2>2 DEF delete
  <2> QED BY <2>1, <2>2
<1>4. ASSUME NEW j \in Job, deleteByConnectionId(j) PROVE ~ Cleaned(preferences[r])'
  BY <1>1, <1>4 DEF deleteByConnectionId, NoneDangling
<1>5. ASSUME NEW j \in Job, upsertPreference(j) PROVE ~ Cleaned(preferences[r])'
  BY <1>1, <1>5 DEF upsertPreference, NoneDangling
<1>6. ASSUME NEW j \in Job, Cut(j) PROVE ~ Cleaned(preferences[r])'
  BY <1>2, <1>6 DEF Cut
<1>7. ASSUME NEW j \in Job, NEW c \in Connection,
             \/ InsertSeed(j, c)
             \/ \E input \in Patch : create(j, c, input) \/ ReadConnection(j, c, input)
             \/ \E q \in Chooser : setPreference(j, q, c)
      PROVE  ~ Cleaned(preferences[r])'
  <2>1. UNCHANGED preferences
    BY <1>7 DEF InsertSeed, create, ReadConnection, setPreference
  <2>2. life[preferences[r]] = "deleted"
    BY <1>7, <2>1 DEF InsertSeed, create, ReadConnection, setPreference
  <2>3. ~ Does(j, "clean") /\ \A k \in Job \ {j} : jobs'[k] = jobs[k]
    BY <1>7 DEF InsertSeed, create, ReadConnection, setPreference
  <2> QED BY <1>2, <2>1, <2>2, <2>3
<1>8. ASSUME NEW j \in Job, seedDefaultConnection(j) \/ WriteConnection(j) \/ unsetOtherDefaults(j)
      PROVE  ~ Cleaned(preferences[r])'
  BY <1>2, <1>8 DEF seedDefaultConnection, WriteConnection, unsetOtherDefaults
<1>9. CASE UNCHANGED connectionVars
  BY <1>2, <1>9 DEF connectionVars
<1> QED BY <1>3, <1>4, <1>5, <1>6, <1>7, <1>8, <1>9 DEF ConnectionNext

(* One connection is the default and no preference is for a deleted one,    *)
(* once the calls are over, but for the ways in which the requests of two   *)
(* calls of the connection services may cross, or one of them be cut off.   *)
THEOREM ConnectionsKeptCorrect == ConnectionSpec => []ConnectionsKept
<1>1. ConnectionInit => ConnectionsKept
  BY DEF ConnectionInit, ConnectionsKept, OneDefault, NoneDangling
<1>2. ConnectionTypeOK /\ ConnectionsKept /\ [ConnectionNext]_connectionVars => ConnectionsKept'
  BY DefaultStep, DanglingStep DEF ConnectionsKept
<1> QED BY <1>1, <1>2, ConnectionTypes, PTL DEF ConnectionSpec

-----------------------------------------------------------------------------
(* MCP OAuth, for any grants, clients and requests.  Nothing in the code    *)
(* locks a code or a token: what keeps the requests that present it apart   *)
(* is that only one of them finds it when it deletes it.  So the argument   *)
(* goes from holder to holder: a grant moves from its code to a request,    *)
(* from there to a token and so on, and no step leaves it where it was.     *)

Issuing(x, g) == exchanges[x].at = "issue" /\ exchanges[x].grant = g

(* The ways in which a grant might be held twice *)
OneToken   == \A t, u \in refresh : t.grant = u.grant => t = u
OneRequest == \A x, y \in Exchange, g \in Grant : Issuing(x, g) /\ Issuing(y, g) => x = y
Apart ==
    /\ \A t \in refresh : t.grant \notin codes
    /\ \A x \in Exchange, g \in Grant : Issuing(x, g) => g \notin codes /\ \A t \in refresh : t.grant # g

HeldOnce == OAuthTypeOK /\ OneToken /\ OneRequest /\ Apart

-----------------------------------------------------------------------------
(* A request that holds a grant is of the one form Redeem gives it.         *)
LEMMA IssuingForm == ASSUME OAuthTypeOK, NEW x \in Exchange, NEW g
                     PROVE  /\ exchanges[x] = [at |-> "issue", grant |-> g] <=> Issuing(x, g)
                            /\ Issuing(x, g) => g \in granted
<1>1. exchanges[x] \in Doing
  BY DEF OAuthTypeOK
<1>2. CASE exchanges[x] \in {NoExchange, Answered}
  BY <1>2 DEF NoExchange, Answered, Issuing
<1>3. CASE exchanges[x] \in [at : {"consume"}, grant : Grant, client : Client]
  BY <1>3 DEF Issuing
<1>4. CASE exchanges[x] \in [at : {"issue"}, grant : Grant]
  BY <1>4 DEF Issuing, OAuthTypeOK
<1> QED BY <1>1, <1>2, <1>3, <1>4 DEF Doing

(* What HeldOnce says in parts is what OneHeir says of the heirs.           *)
LEMMA HeldOnceSuffices == HeldOnce => OneHeir
<1> SUFFICES ASSUME HeldOnce, NEW g \in Grant, NEW a \in Heirs(g), NEW b \in Heirs(g) PROVE a = b
  BY DEF OneHeir
<1> DEFINE Code(h)    == h = <<"code", 0>> /\ g \in codes
           Token(h)   == \E t \in refresh : t.grant = g /\ h = <<"token", t.id>>
           Request(h) == \E x \in Exchange : Issuing(x, g) /\ h = <<"request", x>>
<1>1. ASSUME NEW h \in Heirs(g) PROVE Code(h) \/ Token(h) \/ Request(h)
  <2>1. CASE h \in (IF g \in codes THEN {<<"code", 0>>} ELSE {})
    BY <2>1
  <2>2. CASE h \in {<<"token", t.id>> : t \in {u \in refresh : u.grant = g}}
    BY <2>2
  <2>3. CASE h \in {<<"request", x>> : x \in {y \in Exchange : exchanges[y] = [at |-> "issue", grant |-> g]}}
    <3>1. PICK x \in Exchange : exchanges[x] = [at |-> "issue", grant |-> g] /\ h = <<"request", x>>
      BY <2>3
    <3> QED BY <3>1, IssuingForm DEF HeldOnce
  <2> QED BY <1>1, <2>1, <2>2, <2>3 DEF Heirs
<1>2. CASE Code(a) \/ Code(b)
  BY <1>1, <1>2 DEF HeldOnce, Apart
<1>3. CASE Token(a) /\ Token(b)
  BY <1>3 DEF HeldOnce, OneToken
<1>4. CASE Request(a) /\ Request(b)
  BY <1>4 DEF HeldOnce, OneRequest
<1>5. CASE (Token(a) /\ Request(b)) \/ (Request(a) /\ Token(b))
  BY <1>5 DEF HeldOnce, Apart
<1> QED BY <1>1, <1>2, <1>3, <1>4, <1>5

-----------------------------------------------------------------------------
(* A request that does not redeem anything, and a code that goes away, take *)
(* holders away at most.                                                    *)
LEMMA FewerHolders ==
    ASSUME HeldOnce, OAuthTypeOK', refresh' = refresh, codes' \subseteq codes,
           \A x \in Exchange, g \in Grant : Issuing(x, g)' => Issuing(x, g)
    PROVE  HeldOnce'
BY DEF HeldOnce, OneToken, OneRequest, Apart

(* A request has nothing more to do.                                        *)
LEMMA AnswerTypes == ASSUME OAuthTypeOK, NEW x \in Exchange, Answer(x)
                     PROVE  /\ exchanges' \in [Exchange -> Doing]
                            /\ \A y \in Exchange : y # x => exchanges'[y] = exchanges[y]
                            /\ exchanges'[x].at # "issue"
BY DEF OAuthTypeOK, Answer, Answered, Doing

(* A request takes over a grant.                                            *)
LEMMA RedeemTypes == ASSUME OAuthTypeOK, NEW x \in Exchange, NEW g \in Grant, Redeem(x, g)
                     PROVE  /\ exchanges' \in [Exchange -> Doing]
                            /\ \A y \in Exchange : y # x => exchanges'[y] = exchanges[y]
                            /\ exchanges'[x] = [at |-> "issue", grant |-> g]
BY DEF OAuthTypeOK, Redeem, Doing

(* Answering, with what is stored unchanged or a code less.                 *)
LEMMA AnswerKeeps == ASSUME HeldOnce, NEW x \in Exchange, Answer(x),
                            UNCHANGED <<granted, refresh, issued>>, codes' \subseteq codes
                     PROVE  HeldOnce'
<1>1. OAuthTypeOK'
  BY AnswerTypes DEF HeldOnce, OAuthTypeOK
<1>2. \A y \in Exchange, g \in Grant : Issuing(y, g)' => Issuing(y, g)
  BY AnswerTypes DEF HeldOnce, Issuing
<1> QED BY <1>1, <1>2, FewerHolders

-----------------------------------------------------------------------------
LEMMA HeldAtFirst == OAuthInit => HeldOnce
<1> SUFFICES ASSUME OAuthInit PROVE HeldOnce
  OBVIOUS
<1>1. \A x \in Exchange : exchanges[x].at # "issue"
  BY DEF OAuthInit, NoExchange
<1>2. OAuthTypeOK
  BY <1>1 DEF OAuthInit, OAuthTypeOK, Doing
<1> QED BY <1>1, <1>2 DEF OAuthInit, HeldOnce, OneToken, OneRequest, Apart, Issuing

(* A consent gives a code to a grant that nothing has held before.          *)
LEMMA SaveKeeps == ASSUME HeldOnce, NEW g \in Grant, saveAuthorizationCode(g) PROVE HeldOnce'
<1>1. OAuthTypeOK'
  BY DEF HeldOnce, OAuthTypeOK, saveAuthorizationCode
<1>2. \A t \in refresh : t.grant # g
  BY DEF HeldOnce, OAuthTypeOK, saveAuthorizationCode
<1>3. \A x \in Exchange : ~ Issuing(x, g)
  BY IssuingForm DEF HeldOnce, saveAuthorizationCode
<1> QED BY <1>1, <1>2, <1>3 DEF HeldOnce, OneToken, OneRequest, Apart, Issuing, saveAuthorizationCode

LEMMA ChallengeKeeps == ASSUME HeldOnce, NEW x \in Exchange, NEW g \in Grant, NEW c \in Client, Challenge(x, g, c)
                        PROVE  HeldOnce'
<1>1. CASE Answer(x)
  BY <1>1, AnswerKeeps DEF Challenge, Stored
<1>2. CASE exchanges' = [exchanges EXCEPT ![x] = [at |-> "consume", grant |-> g, client |-> c]]
  <2>1. OAuthTypeOK'
    BY <1>2 DEF HeldOnce, OAuthTypeOK, Challenge, Stored, Doing
  <2>2. \A y \in Exchange, h \in Grant : Issuing(y, h)' => Issuing(y, h)
    BY <1>2 DEF HeldOnce, OAuthTypeOK, Issuing
  <2> QED BY <2>1, <2>2, FewerHolders DEF Challenge, Stored
<1> QED BY <1>1, <1>2 DEF Challenge

(* The code is deleted by the request that finds it, and by no other.       *)
LEMMA ConsumeKeeps == ASSUME HeldOnce, NEW x \in Exchange, consumeAuthorizationCode(x) PROVE HeldOnce'
<1>1. CASE Answer(x)
  BY <1>1, AnswerKeeps DEF consumeAuthorizationCode
<1>2. CASE \E g \in codes : g = exchanges[x].grant /\ Redeem(x, g)
  <2>1. PICK g \in codes : g = exchanges[x].grant /\ Redeem(x, g)
    BY <1>2
  <2>2. g \in Grant /\ g \in granted
    BY DEF HeldOnce, OAuthTypeOK
  <2>3. codes' = codes \ {g} /\ refresh' = refresh
    BY <2>1 DEF consumeAuthorizationCode
  <2>taken. /\ exchanges' \in [Exchange -> Doing] /\ exchanges'[x] = [at |-> "issue", grant |-> g]
        /\ \A y \in Exchange : y # x => exchanges'[y] = exchanges[y]
    BY <2>1, <2>2, RedeemTypes DEF HeldOnce
  <2>4. OAuthTypeOK'
    BY <2>2, <2>3, <2>taken DEF HeldOnce, OAuthTypeOK, consumeAuthorizationCode
  <2>5. (\A t \in refresh : t.grant # g) /\ \A y \in Exchange : ~ Issuing(y, g)
    BY <2>2 DEF HeldOnce, Apart
  <2>6. \A y \in Exchange, h \in Grant : Issuing(y, h)' => (y = x /\ h = g) \/ (h # g /\ Issuing(y, h))
    BY <2>5, <2>taken DEF Issuing
  <2> QED BY <2>2, <2>3, <2>4, <2>5, <2>6 DEF HeldOnce, OneToken, OneRequest, Apart
<1> QED BY <1>1, <1>2 DEF consumeAuthorizationCode

(* So is a refresh token, with nothing between the look-up and the deletion. *)
LEMMA RotateKeeps == ASSUME HeldOnce, NEW x \in Exchange, NEW id, NEW c \in Client, rotateRefreshToken(x, id, c)
                     PROVE  HeldOnce'
<1>1. CASE UNCHANGED refresh /\ Answer(x)
  BY <1>1, AnswerKeeps DEF rotateRefreshToken
<1>2. CASE \E t \in refresh : refresh' = refresh \ {t} /\ Redeem(x, t.grant)
  <2>1. PICK t \in refresh : refresh' = refresh \ {t} /\ Redeem(x, t.grant)
    BY <1>2
  <2>2. t.grant \in Grant /\ t.grant \in granted
    BY DEF HeldOnce, OAuthTypeOK
  <2>taken. /\ exchanges' \in [Exchange -> Doing] /\ exchanges'[x] = [at |-> "issue", grant |-> t.grant]
        /\ \A y \in Exchange : y # x => exchanges'[y] = exchanges[y]
    BY <2>1, <2>2, RedeemTypes DEF HeldOnce
  <2>3. OAuthTypeOK'
    BY <2>1, <2>2, <2>taken DEF HeldOnce, OAuthTypeOK, rotateRefreshToken
  <2>4. codes' = codes
    BY DEF rotateRefreshToken
  <2>5. \A u \in refresh' : u.grant # t.grant
    BY <2>1 DEF HeldOnce, OneToken
  <2>6. t.grant \notin codes /\ \A y \in Exchange : ~ Issuing(y, t.grant)
    BY <2>2 DEF HeldOnce, Apart
  <2>7. \A y \in Exchange, h \in Grant : Issuing(y, h)' => (y = x /\ h = t.grant) \/ (h # t.grant /\ Issuing(y, h))
    BY <2>6, <2>taken DEF Issuing
  <2> QED BY <2>1, <2>2, <2>3, <2>4, <2>5, <2>6, <2>7 DEF HeldOnce, OneToken, OneRequest, Apart
<1> QED BY <1>1, <1>2 DEF rotateRefreshToken

(* The request passes its grant on to a token, and holds it no more.        *)
LEMMA IssueKeeps == ASSUME HeldOnce, NEW x \in Exchange, issueRefreshToken(x) PROVE HeldOnce'
<1> DEFINE g == exchanges[x].grant
           new == [id |-> issued + 1, grant |-> g]
<1>1. g \in Grant /\ g \in granted /\ Issuing(x, g)
  BY DEF HeldOnce, OAuthTypeOK, issueRefreshToken, Issuing
<1>2. refresh' = refresh \cup {new} /\ codes' = codes /\ granted' = granted /\ Answer(x)
  BY DEF issueRefreshToken
<1>3. OAuthTypeOK'
  <2>1. issued' = issued + 1 /\ issued' \in Nat
    BY DEF HeldOnce, OAuthTypeOK, issueRefreshToken
  <2>2. refresh' \subseteq [id : 1..issued', grant : granted]
    BY <1>1, <1>2, <2>1 DEF HeldOnce, OAuthTypeOK
  <2> QED BY <1>2, <2>1, <2>2, AnswerTypes DEF HeldOnce, OAuthTypeOK
<1>4. \A t \in refresh : t.grant # g
  BY <1>1 DEF HeldOnce, Apart
<1>5. g \notin codes
  BY <1>1 DEF HeldOnce, Apart
<1>6. \A y \in Exchange, h \in Grant : Issuing(y, h)' => h # g /\ Issuing(y, h)
  <2> SUFFICES ASSUME NEW y \in Exchange, NEW h \in Grant, Issuing(y, h)' PROVE h # g /\ Issuing(y, h)
    OBVIOUS
  <2>1. y # x /\ Issuing(y, h)
    BY <1>2, AnswerTypes DEF HeldOnce, Issuing
  <2> QED BY <1>1, <2>1 DEF HeldOnce, OneRequest
<1>7. OneToken' /\ OneRequest' /\ Apart'
  BY <1>2, <1>4, <1>5, <1>6 DEF HeldOnce, OneToken, OneRequest, Apart
<1> QED BY <1>3, <1>7 DEF HeldOnce

LEMMA ExpireKeeps == ASSUME HeldOnce, NEW g \in Grant, ExpireCode(g) PROVE HeldOnce'
<1>1. OAuthTypeOK'
  BY DEF HeldOnce, OAuthTypeOK, ExpireCode
<1> QED BY <1>1, FewerHolders DEF ExpireCode, Issuing

LEMMA HeldOnceInductive == HeldOnce /\ [OAuthNext]_oauthVars => HeldOnce'
<1> SUFFICES ASSUME HeldOnce, [OAuthNext]_oauthVars PROVE HeldOnce'
  OBVIOUS
<1>1. CASE UNCHANGED oauthVars
  BY <1>1 DEF oauthVars, HeldOnce, OAuthTypeOK, OneToken, OneRequest, Apart, Issuing
<1>2. ASSUME NEW x \in Exchange, NEW g \in Grant, NEW c \in Client, Challenge(x, g, c) PROVE HeldOnce'
  BY <1>2, ChallengeKeeps
<1>3. ASSUME NEW x \in Exchange, NEW c \in Client, NEW id \in 1..issued, rotateRefreshToken(x, id, c) PROVE HeldOnce'
  BY <1>3, RotateKeeps
<1>4. ASSUME NEW x \in Exchange, consumeAuthorizationCode(x) PROVE HeldOnce'
  BY <1>4, ConsumeKeeps
<1>5. ASSUME NEW x \in Exchange, issueRefreshToken(x) PROVE HeldOnce'
  BY <1>5, IssueKeeps
<1>6. ASSUME NEW x \in Exchange, Abandon(x) PROVE HeldOnce'
  BY <1>6, AnswerKeeps DEF Abandon, Stored
<1>7. ASSUME NEW g \in Grant, saveAuthorizationCode(g) PROVE HeldOnce'
  BY <1>7, SaveKeeps
<1>8. ASSUME NEW g \in Grant, ExpireCode(g) PROVE HeldOnce'
  BY <1>8, ExpireKeeps
<1> QED BY <1>1, <1>2, <1>3, <1>4, <1>5, <1>6, <1>7, <1>8 DEF OAuthNext, ExchangeStep

-----------------------------------------------------------------------------
(* "One-time use": whatever the user consented to is held by its code, by    *)
(* one refresh token, or by the one request that is about to issue the next, *)
(* however many requests present the same code or token at the same time.   *)
THEOREM OneHeirCorrect == OAuthSpec => []OneHeir
<1> QED BY HeldAtFirst, HeldOnceInductive, HeldOnceSuffices, PTL DEF OAuthSpec
=============================================================================
