------------------------------ MODULE MCStake ------------------------------
EXTENDS Stake

MCOrder == <<"a", "b", "c">>

Keep == {<<"b", 1, TRUE>>, <<"c", 2, TRUE>>, <<"b", 0, TRUE>>, <<"c", 0, TRUE>>}

\* Withdrawals in several parts, along routes, by an account that delegates.
Withdrawing == [withdrawers |-> {"a"}, delegators |-> {"a"}, candidates |-> {},
                most |-> 7, bought |-> {2, 5}, asked |-> {0, 3, 5}, lent |-> {0, 1, 3}, routes |-> Keep]

\* Platforms that redelegate what is delegated to them.
Reporting == [withdrawers |-> {}, delegators |-> {"a", "b"}, candidates |-> {"b", "c"},
              most |-> 3, bought |-> {1, 2}, asked |-> {}, lent |-> {0, 1, 2}, routes |-> {}]

\* Platforms that withdraw, and are delegated to by others and by each other.
Platforms == [withdrawers |-> {"b"}, delegators |-> {"a", "b"}, candidates |-> {"b", "c"},
              most |-> 4, bought |-> {2}, asked |-> {1}, lent |-> {0, 1},
              routes |-> {<<"c", 1, TRUE>>}]

MCProfiles == {Withdrawing, Reporting, Platforms}

=============================================================================
