------------------------------- MODULE Network -------------------------------
(***************************************************************************)
(* What class Graph promises its callers: a set of people and, for some    *)
(* pairs of different people, a weight.  A pair has no direction and one   *)
(* weight.  Every answer is about the people the call names, and a call is *)
(* refused in the listed cases and in no other; refused, it changes        *)
(* nothing here.                                                           *)
(***************************************************************************)
CONSTANTS NodeId, Weight,
          Interaction, ConnectionCount,  \* whole numbers
          None,                          \* an argument that is not given
          Inf, NaN                       \* numbers that are not whole

VARIABLES people,   \* the identifiers present
          link,     \* weight of each linked pair, a function on 2-element sets
          reply     \* the last call, with its arguments, and what it
                    \* returned or raised

vars == <<people, link, reply>>

NoLink == [p \in {} |-> p]
Linked(u, v) == {u, v} \in DOMAIN link
Friends(n) == {v \in people : Linked(n, v)}
Cut(P) == [p \in DOMAIN link \ P |-> link[p]]

Answers(call, args, result, ids, weights) ==
  /\ reply' = [call |-> call, args |-> args, result |-> result,
               ids |-> ids, weights |-> weights]
  /\ UNCHANGED <<people, link>>
Refused(call, args, exception) == Answers(call, args, exception, {}, {})
Done(call, args) ==
  reply' = [call |-> call, args |-> args, result |-> "ok", ids |-> {}, weights |-> {}]

Init ==
  /\ people = {} /\ link = NoLink
  /\ reply = [call |-> "__init__", args |-> <<>>, result |-> "ok",
              ids |-> {}, weights |-> {}]

-----------------------------------------------------------------------------
Infinite(i, c) == i = Inf \/ (i # NaN /\ c = Inf)
NotANumber(i, c) == i = NaN \/ (i # Inf /\ c = NaN)
Counts(i, c) == ~Infinite(i, c) /\ ~NotANumber(i, c)

Join(n, i, c) ==
  \/ /\ n \notin people /\ Counts(i, c)
     /\ Done("add_node", <<n, i, c>>)
     /\ people' = people \cup {n}
     /\ UNCHANGED link
  \/ /\ n \in people \/ NotANumber(i, c)
     /\ Refused("add_node", <<n, i, c>>, "ValueError")
  \/ /\ n \notin people /\ Infinite(i, c)
     /\ Refused("add_node", <<n, i, c>>, "OverflowError")

JoinObject(n) ==
  \/ /\ n \notin people
     /\ Done("add_node_object", <<n>>)
     /\ people' = people \cup {n}
     /\ UNCHANGED link
  \/ n \in people /\ Refused("add_node_object", <<n>>, "ValueError")

\* Features are not part of this view: changing them changes nothing here.
Edit(n, i, c) ==
  \/ /\ n \in people /\ Counts(i, c)
     /\ Answers("update_node", <<n, i, c>>, "ok", {}, {})
  \/ /\ n \notin people \/ NotANumber(i, c)
     /\ Refused("update_node", <<n, i, c>>, "ValueError")
  \/ /\ n \in people /\ Infinite(i, c)
     /\ Refused("update_node", <<n, i, c>>, "OverflowError")

Leave(n) ==
  \/ /\ n \in people
     /\ Done("remove_node", <<n>>)
     /\ people' = people \ {n}
     /\ link' = Cut({p \in DOMAIN link : n \in p})
  \/ n \notin people /\ Refused("remove_node", <<n>>, "ValueError")

\* A new link, or a new weight for an existing one.
Connect(u, v, w) ==
  \/ /\ {u, v} \subseteq people /\ u # v
     /\ Done("add_edge", <<u, v, w>>)
     /\ link' = [p \in DOMAIN link \cup {{u, v}} |->
                   IF p = {u, v} THEN w ELSE link[p]]
     /\ UNCHANGED people
  \/ /\ ~({u, v} \subseteq people /\ u # v)
     /\ Refused("add_edge", <<u, v, w>>, "ValueError")

Reweigh(u, v, w) ==
  \/ /\ Linked(u, v)
     /\ Done("update_edge_weight", <<u, v, w>>)
     /\ link' = [link EXCEPT ![{u, v}] = w]
     /\ UNCHANGED people
  \/ ~Linked(u, v) /\ Refused("update_edge_weight", <<u, v, w>>, "ValueError")

Disconnect(u, v) ==
  \/ /\ u # v
     /\ Done("remove_edge", <<u, v>>)
     /\ link' = Cut({{u, v}})
     /\ UNCHANGED people
  \/ u = v /\ Refused("remove_edge", <<u, v>>, "ValueError")

Forget == Done("clear", <<>>) /\ people' = {} /\ link' = NoLink

-----------------------------------------------------------------------------
AskFriends(n) == Answers("get_neighbors", <<n>>, "ok", Friends(n), {})

AskLinked(u, v) ==
  \/ u # v /\ Answers("has_edge", <<u, v>>, IF Linked(u, v) THEN "True" ELSE "False", {}, {})
  \/ u = v /\ Refused("has_edge", <<u, v>>, "ValueError")

AskWeight(u, v) ==
  \/ u # v /\ Answers("get_edge_weight", <<u, v>>, "ok", {},
                      {link[p] : p \in DOMAIN link \cap {{u, v}}})
  \/ u = v /\ Refused("get_edge_weight", <<u, v>>, "ValueError")

-----------------------------------------------------------------------------
AboutOne(n) ==
  \/ JoinObject(n) \/ Leave(n) \/ AskFriends(n)
  \/ \E i \in Interaction \cup {Inf, NaN}, c \in ConnectionCount \cup {Inf, NaN} : Join(n, i, c)
  \/ \E i \in Interaction \cup {None, Inf, NaN}, c \in ConnectionCount \cup {None, Inf, NaN} :
       Edit(n, i, c)

AboutTwo(u, v) ==
  \/ Disconnect(u, v) \/ AskLinked(u, v) \/ AskWeight(u, v)
  \/ \E w \in Weight : Connect(u, v, w) \/ Reweigh(u, v, w)

Next ==
  \/ \E n \in NodeId : AboutOne(n)
  \/ \E u, v \in NodeId : AboutTwo(u, v)
  \/ Forget

Spec == Init /\ [][Next]_vars
=============================================================================
