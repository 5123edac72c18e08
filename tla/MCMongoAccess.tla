--------------------------- MODULE MCMongoAccess ---------------------------
(* Instances of MongoAccess for TLC. *)
EXTENDS MongoAccess

CONSTANTS d1, d2, d3, d4, first, second, third

MCIds == {d1, d2, d3, d4}
MCCalls == {first, second, third}

MCSeeds == [id \in MCIds |-> CASE id = d1 -> 1 [] id = d2 -> 2 [] id = d3 -> 3 [] id = d4 -> Free]

create(k) == [op |-> "create", key |-> k]
batch(k) == [op |-> "createMany", key |-> k]
delete(id) == [op |-> "delete", id |-> id]
deleteAll(id) == [op |-> "deleteMany", id |-> id]
updateAll(id, k) == [op |-> "updateMany", id |-> id, key |-> k]
update(id, k) == [op |-> "update", id |-> id, key |-> k]
find(id) == [op |-> "find", id |-> id]

transaction(ops) == [kind |-> "transaction", program |-> ops]
plain(ops) == [kind |-> "plain", program |-> ops]
listing(n, by) == [kind |-> "listing", limit |-> n, sort |-> by]
users == [kind |-> "users"]

Mix(one, two, three) == [c \in MCCalls |-> CASE c = first -> one [] c = second -> two [] c = third -> three]

\* Writers with a reader of pages of one or two, the default; transactions among writers.
MCJobs ==
  {Mix(transaction(<<delete(d1), create(4)>>), plain(<<update(d1, 4), delete(d2)>>), listing(0, "key")),
   Mix(plain(<<batch(0), batch(2)>>), plain(<<delete(d3)>>), listing(2, "other")),
   Mix(transaction(<<find(d2), update(d3, 2)>>), plain(<<updateAll(d1, 4), updateAll(d3, 4)>>), listing(1, "key")),
   Mix(plain(<<deleteAll(d1), deleteAll(d2)>>), plain(<<create(4)>>), users),
   Mix(transaction(<<create(4), create(0)>>), transaction(<<delete(d1), create(4)>>), plain(<<create(0)>>))}
=============================================================================
