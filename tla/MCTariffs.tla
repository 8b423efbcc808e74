------------------------------ MODULE MCTariffs ------------------------------
(* A small instance of Tariffs: one station, one plan of two rules. *)
EXTENDS Tariffs

Anything ==
  [type |-> "per_kwh", connector |-> "ALL", min |-> None, max |-> None,
   from |-> None, to |-> None, days |-> None, weekend |-> None,
   since |-> None, till |-> None, price |-> 1500, priority |-> 10]

(* By day on one kind of connector, on some days; in the evening after it; *)
(* by the minute over night at weekends.  The first is apart from the      *)
(* second by its hours, they meet at 18:00, and from the third by its days.*)
MCContents ==
  {[Anything EXCEPT !.connector = "CCS", !.from = 6, !.to = 18, !.days = {1, 5}],
   [Anything EXCEPT !.from = 18, !.to = 23, !.price = 1200, !.max = 50, !.min = 10,
                    !.weekend = FALSE],
   [Anything EXCEPT !.type = "per_minute", !.from = 17, !.to = 3, !.days = {6, 7},
                    !.price = 100, !.priority = 20, !.since = 2]}

MCTimes == [hour : {3, 18}, day : {1, 6}]

MCConnector == [type |-> "CCS", power |-> 50]

MCPromo == [percent |-> None, value |-> 3000, most |-> 0, least |-> 1000]

MCRequests ==
  {[kwh |-> 2, amount |-> 5000]}

CONSTANT v1

(* One price is known; another of that kind, spelt differently, is added.  *)
MCSeed == [v \in Rivals |-> IF v = v1 THEN [type |-> "DC", price |-> 1400, currency |-> "KGS"]
                           ELSE None]
MCEntries == {[type |-> "dc", price |-> 400, currency |-> "KGS"],
              [type |-> "dc", price |-> 400, currency |-> "USD"]}

MCHistories ==
  {[demand |-> 0, first |-> 0, second |-> 5], [demand |-> 11, first |-> 10, second |-> 12]}

MCFee == [s \in Stations |-> 50]
MCPower == [s \in Stations |-> 60]
MCLocation == [s \in Stations |-> "city"]
=============================================================================
