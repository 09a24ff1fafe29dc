----------------------------- MODULE ConnmanMC -----------------------------
(***************************************************************************)
(* Three addresses, two of them in one network group; each scenario starts *)
(* some of the threads with a few incoming connections and commands.       *)
(***************************************************************************)
EXTENDS Connman, TLC

Base == [threads |-> {"net"}, anchors |-> <<>>, added |-> {}, discouraged |-> {}, connect |-> {}, incoming |-> {},
         commands |-> {}, seeds |-> {}, v2 |-> FALSE, asked |-> {}, known |-> {}, last |-> 1,
         max |-> [full |-> 1, block |-> 0, feeler |-> 1, add |-> 1, inbound |-> 1]]
Incoming(via) == {[addr |-> "a", noban |-> FALSE, via |-> via], [addr |-> "b", noban |-> FALSE, via |-> via],
                  [addr |-> "c", noban |-> TRUE, via |-> via]}
MCGroup == "a" :> "g" @@ "b" :> "g" @@ "c" :> None
MCScenarios ==
    { [Base EXCEPT !.incoming = Incoming("net"), !.discouraged = {"b"}, !.max.inbound = 2, !.last = 0],
      [Base EXCEPT !.threads = {"net", "open"}, !.anchors = <<"a", "b">>, !.v2 = TRUE, !.known = {"c"}, !.max.block = 1, !.max.feeler = 0],
      [Base EXCEPT !.threads = {"net", "open"}, !.commands = {"try", "off"}, !.known = {"a", "b"}],
      [Base EXCEPT !.threads = {"net", "open", "add"}, !.added = {"a"}, !.known = {"b"}],
      [Base EXCEPT !.threads = {"net", "add"}, !.added = {"a", "b"}, !.v2 = TRUE, !.commands = {"remove"}],
      [Base EXCEPT !.threads = {"net", "msg"}, !.incoming = {c \in Incoming("net") : ~c.noban}, !.commands = {"disconnect"}],
      [Base EXCEPT !.threads = {"net", "i2p"}, !.incoming = Incoming("i2p"), !.last = 0, !.commands = {"off", "on"}],
      [Base EXCEPT !.threads = {"net", "open", "dns"}, !.seeds = {"b"}, !.discouraged = {"a"}, !.known = {"a"}],
      [Base EXCEPT !.threads = {"net", "open"}, !.connect = {"a"}, !.v2 = TRUE, !.commands = {"addnode"}],
      [Base EXCEPT !.threads = {"net", "msg", "rpc"}, !.asked = {[addr |-> "a", type |-> "full"], [addr |-> "b", type |-> "feeler"]}] }


(* A connection marked for disconnection is deleted, and Stop returns with *)
(* every connection deleted.                                               *)
ConnectionsEnd == DroppedIsDeleted /\ StopCompletes
=============================================================================
