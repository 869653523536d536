----------------------------- MODULE MCLazyLoad -----------------------------
(* LazyLoad with two threads and three calls in all.  The requests are those *)
(* of a guardrail given a tuple, of a caller that passes the same tuple, of  *)
(* one that adds a falsy argument that configures something                  *)
(* (drop_wordlist_fps=False), and of one whose list th_new rejects.          *)
EXTENDS LazyLoad

CONSTANTS t1, t2, include, wordlist

MCThreads == {t1, t2}
MCOptions == {include, wordlist}
MCListArgs == {include}
MCKeptFalsy == {wordlist}

False == [kind |-> "scalar", items |-> <<>>]
ListOf(name) == [kind |-> "list", items |-> <<name>>]
TupleOf(name) == [kind |-> "tuple", items |-> <<name>>]
Include(v) == [o \in MCOptions |-> IF o = include THEN v ELSE None]

MCKwargs ==
    << GuardrailKwargs(Include(TupleOf("good"))), Include(TupleOf("good")),
       [Include(TupleOf("good")) EXCEPT ![wordlist] = False], Include(ListOf("typo")) >>
MCRequests == DOMAIN MCKwargs
MCRejected == {{<<include, <<"typo">>>>}}
=============================================================================
