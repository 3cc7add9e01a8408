--------------------------- MODULE PreparedProofs ---------------------------
(***************************************************************************)
(* The invariants of the prepared-statement cache, proved for any number   *)
(* of calls and statements, every size of the cache and every number and   *)
(* kind of faults.                                                         *)
(***************************************************************************)
EXTENDS Prepared, SeqFacts

-----------------------------------------------------------------------------
(* The inductive invariants *)

SqlAt(i) == sql[outbox[i].call]

\* What an answer may say.
Results == {"done", "26000", "0A000", "42P05", "08P01"}

\* A call under way is in one place, holds an entry for its own SQL, and awaits.
UnderWay ==
  /\ \A i \in 1 .. Len(outbox) :
       /\ status[outbox[i].call] \in {"sent1", "sent2"}
       /\ bound[outbox[i].call] \in Entries
       /\ SqlOf(bound[outbox[i].call]) = SqlAt(i)
  /\ \A i \in 1 .. Len(answers) :
       /\ status[answers[i].call] \in {"sent1", "sent2"}
       /\ bound[answers[i].call] \in Entries
       /\ SqlOf(bound[answers[i].call]) = sql[answers[i].call]
       /\ answers[i].result \in Results
  /\ \A i, j \in 1 .. Len(outbox) : outbox[i].call = outbox[j].call => i = j
  /\ \A i, j \in 1 .. Len(answers) : answers[i].call = answers[j].call => i = j
  /\ \A i \in 1 .. Len(outbox), j \in 1 .. Len(answers) :
       outbox[i].call # answers[j].call

\* The entry of an attempt that was not made yet.
Unmade(e) ==
  \/ e[2] = 1 /\ status[e[1]] = "new"
  \/ e[2] = 2 /\ status[e[1]] \in {"new", "sent1", "retrying"}

Fresh ==
  \A e \in Entries :
    Unmade(e) => /\ e \notin Range(cache)
                 /\ oids[e] = None
                 /\ \A k \in Calls : bound[k] # e

\* No batch under way parses s, and the server's plan of it, if any, is v's.
Plan(s, v) ==
  /\ \A i \in 1 .. Len(outbox) : outbox[i].parse => SqlAt(i) # s
  /\ table[s] \in {None, v}

\* Formats that a batch carries, columns that a cached entry knows or that an
\* answer brings to one, are those of the plan: whoever parses a statement
\* again puts a new entry in the place of the one that knows them.
BatchFormats ==
  \A j \in 1 .. Len(outbox) :
    outbox[j].formats # None =>
      /\ ~outbox[j].parse
      /\ \A i \in 1 .. j - 1 : outbox[i].parse => SqlAt(i) # SqlAt(j)
      /\ table[SqlAt(j)] \in {None, outbox[j].formats}

CacheColumns ==
  \A e \in Range(cache) : oids[e] # None => Plan(SqlOf(e), oids[e])

AnswerColumns ==
  \A i \in 1 .. Len(answers) :
    LET e == bound[answers[i].call]
    IN  answers[i].columns # None /\ e \in Range(cache) =>
          Plan(SqlOf(e), answers[i].columns)

\* Behind a batch that holds a cached entry, nobody parses the statement again.
HeldEntries ==
  \A i, j \in 1 .. Len(outbox) :
    i < j /\ bound[outbox[i].call] \in Range(cache) /\ outbox[j].parse =>
      SqlAt(j) # SqlAt(i)

FormatsInv ==
  /\ BatchFormats /\ CacheColumns /\ AnswerColumns /\ HeldEntries
  /\ \A i \in 1 .. Len(answers) : answers[i].result # "08P01"
  /\ FormatsMatchPlan

\* s will be at the server when it has run the first n batches of O, unless
\* something goes wrong before.
Left(O, T, q, n, s) ==
  \/ \E i \in 1 .. n : /\ O[i].parse /\ q[O[i].call] = s
                       /\ \A j \in i + 1 .. n : O[j].close # s
  \/ T[s] # None /\ \A j \in 1 .. n : O[j].close # s

Accounted ==
  \A s \in Stmts :
    Left(outbox, table, sql, Len(outbox), s) =>
      IsCached(s) \/ \E k \in Calls : status[k] = "abandoned" /\ sql[k] = s

\* Of a statement left undisturbed, what will be at the server is what the
\* cache holds, and each batch parses it exactly if it will not be there.
Agreed ==
  /\ \A i \in 1 .. Len(outbox) : outbox[i].close # SqlAt(i)
  /\ \A s \in Stmts \ disturbed :
       /\ table[s] \in {None, schema}
       /\ IsCached(s) <=> Left(outbox, table, sql, Len(outbox), s)
       /\ \A k \in Calls :
            sql[k] = s => status[k] \in {"new", "sent1", "done", "08P01"}
  /\ \A i \in 1 .. Len(outbox) : SqlAt(i) \notin disturbed =>
       (outbox[i].parse <=> ~Left(outbox, table, sql, i - 1, SqlAt(i)))
  /\ \A i \in 1 .. Len(answers) : sql[answers[i].call] \notin disturbed =>
       answers[i].result \in {"done", "08P01"}

-----------------------------------------------------------------------------
(* The cache as a set of entries with different SQL *)

\* The part of TypeOK that is about the cache.
IsCache(c) ==
  /\ c \in Seq(Entries)
  /\ \A i, j \in DOMAIN c : SqlOf(c[i]) = SqlOf(c[j]) => i = j

Keyed(c) ==
  /\ c \in Seq(Entries)
  /\ IsInjective(c)
  /\ \A e, f \in Range(c) : SqlOf(e) = SqlOf(f) => e = f

\* The same, as a set.
LEMMA CacheIsKeyed ==
  ASSUME NEW c
  PROVE  IsCache(c) <=> Keyed(c)
BY DEF IsCache, Keyed, IsInjective, Range

\* A cached statement has an entry of its own.
LEMMA EntryFacts ==
  ASSUME Keyed(cache), NEW s, IsCached(s)
  PROVE  EntryFor(s) \in Range(cache) /\ EntryFor(s) \in Entries /\ SqlOf(EntryFor(s)) = s
<1>1. PICK e \in Range(cache) : SqlOf(e) = s
  BY DEF IsCached
<1>2. EntryFor(s) \in Range(cache) /\ SqlOf(EntryFor(s)) = s
  BY <1>1 DEF EntryFor
<1>3. EntryFor(s) \in Entries
  BY <1>2, RangeByIndex, ElementOfSeq DEF Keyed
<1> QED
  BY <1>2, <1>3

\* forget() takes one entry away.
LEMMA ForgottenFacts ==
  ASSUME Keyed(cache), NEW s
  PROVE  /\ Keyed(Forgotten(s))
         /\ Range(Forgotten(s)) = {e \in Range(cache) : SqlOf(e) # s}
         /\ Len(Forgotten(s)) <= Len(cache)
         /\ IsCached(s) => Len(Forgotten(s)) = Len(cache) - 1
<1>1. /\ cache \in Seq(Entries) /\ IsInjective(cache)
      /\ \A e, f \in Range(cache) : SqlOf(e) = SqlOf(f) => e = f
      /\ DOMAIN cache = 1 .. Len(cache) /\ Len(cache) \in Nat
  BY LenProperties DEF Keyed
<1>2. CASE ~IsCached(s)
  <2>1. Forgotten(s) = cache
    BY <1>2 DEF Forgotten
  <2>2. Range(cache) = {e \in Range(cache) : SqlOf(e) # s}
    BY <1>2 DEF IsCached
  <2>3. Len(cache) <= Len(cache)
    BY <1>1
  <2> QED
    BY <2>1, <2>2, <2>3, <1>2
<1>3. CASE IsCached(s)
  <2> DEFINE n == CHOOSE i \in DOMAIN cache : SqlOf(cache[i]) = s
  <2>1. \E i \in DOMAIN cache : SqlOf(cache[i]) = s
    BY <1>3 DEF IsCached, Range
  <2>2. n \in 1 .. Len(cache) /\ SqlOf(cache[n]) = s
    BY <2>1, <1>1
  <2>3. Forgotten(s) = RemoveAt(cache, n)
    BY <1>3 DEF Forgotten
  <2> HIDE DEF n
  <2>4. /\ RemoveAt(cache, n) \in Seq(Entries)
        /\ Len(RemoveAt(cache, n)) = Len(cache) - 1
    BY <1>1, <2>2, RemoveAtFacts
  <2>5. /\ IsInjective(RemoveAt(cache, n))
        /\ Range(RemoveAt(cache, n)) = Range(cache) \ {cache[n]}
    BY <1>1, <2>2, RemoveAtDistinct
  <2>6. cache[n] \in Range(cache)
    BY <2>2, <1>1 DEF Range
  <2>7. Range(cache) \ {cache[n]} = {e \in Range(cache) : SqlOf(e) # s}
    BY <2>2, <2>6, <1>1
  <2>8. Keyed(RemoveAt(cache, n))
    BY <2>4, <2>5, <1>1 DEF Keyed
  <2> QED
    BY <2>3, <2>4, <2>5, <2>7, <2>8, <1>1
<1> QED
  BY <1>2, <1>3

\* bump() keeps the entries.
LEMMA BumpedFacts ==
  ASSUME Keyed(cache), NEW s, IsCached(s)
  PROVE  /\ Keyed(Bumped(s))
         /\ Range(Bumped(s)) = Range(cache)
         /\ Len(Bumped(s)) = Len(cache)
<1>1. /\ Keyed(Forgotten(s))
      /\ Range(Forgotten(s)) = {e \in Range(cache) : SqlOf(e) # s}
      /\ Len(Forgotten(s)) = Len(cache) - 1
  BY ForgottenFacts
<1>2. EntryFor(s) \in Range(cache) /\ EntryFor(s) \in Entries /\ SqlOf(EntryFor(s)) = s
  BY EntryFacts
<1>3. Forgotten(s) \in Seq(Entries) /\ IsInjective(Forgotten(s)) /\ EntryFor(s) \notin Range(Forgotten(s))
  BY <1>1, <1>2 DEF Keyed
<1> DEFINE f == Forgotten(s)
           e == EntryFor(s)
<1> HIDE DEF f, e
<1>4. /\ Append(f, e) \in Seq(Entries) /\ Len(Append(f, e)) = Len(f) + 1
      /\ IsInjective(Append(f, e)) /\ Range(Append(f, e)) = Range(f) \cup {e}
  BY <1>2, <1>3, AppendDistinct, AppendProperties DEF f, e
<1>5. Len(cache) \in Nat /\ Len(f) + 1 = Len(cache)
  BY <1>1, LenProperties DEF Keyed, f
<1>6. Range(f) \cup {e} = Range(cache)
  BY <1>1, <1>2 DEF Keyed, f, e
<1>7. Keyed(Append(f, e))
  BY <1>4, <1>6 DEF Keyed
<1> QED
  BY <1>4, <1>5, <1>6, <1>7 DEF Bumped, f, e

\* add() replaces the entry of its SQL, and one other if the cache is full.
LEMMA AddedFacts ==
  ASSUME Keyed(cache), Len(cache) <= MaxSize, MaxSize \in Nat \ {0},
         NEW s, NEW e \in Entries, SqlOf(e) = s, None \notin Stmts,
         \A x \in Entries : SqlOf(x) \in Stmts
  PROVE  /\ Keyed(Added(s, e))
         /\ Range(Added(s, e)) =
              {x \in Range(cache) : SqlOf(x) \notin {s, Evicted(s)}} \cup {e}
         /\ Len(Added(s, e)) <= MaxSize
         /\ Evicted(s) \in Stmts \cup {None}
         /\ Evicted(s) # s
<1> DEFINE f == Forgotten(s)
<1>1. /\ Keyed(f)
      /\ Range(f) = {x \in Range(cache) : SqlOf(x) # s}
      /\ Len(f) <= Len(cache)
  BY ForgottenFacts
<1>2. f \in Seq(Entries) /\ IsInjective(f) /\ Len(f) \in Nat /\ Len(cache) \in Nat
  BY <1>1, LenProperties DEF Keyed
<1>3. s \in Stmts
  OBVIOUS
<1>4. Range(f) \subseteq Entries
  BY <1>2, RangeByIndex, ElementOfSeq
<1> HIDE DEF f
<1>5. CASE Len(f) >= MaxSize
  <2> DEFINE g == Tail(f)
  <2>1. f # <<>>
    BY <1>2, <1>5, EmptySeq
  <2>2. /\ Head(f) \in Range(f) /\ IsInjective(g)
        /\ Range(g) = Range(f) \ {Head(f)}
        /\ g \in Seq(Entries) /\ Len(g) = Len(f) - 1
    BY <1>2, <2>1, TailDistinct, HeadTailProperties
  <2> HIDE DEF g
  <2>3. Evicted(s) = SqlOf(Head(f)) /\ SqlOf(Head(f)) \in Stmts /\ SqlOf(Head(f)) # s
    BY <1>5, <1>1, <1>4, <2>2 DEF Evicted, f
  <2>4. Added(s, e) = Append(g, e)
    BY <2>3, <1>3 DEF Added, f, g
  <2>5. e \notin Range(g)
    BY <1>1, <2>2
  <2>6. /\ Append(g, e) \in Seq(Entries)
        /\ Len(Append(g, e)) = Len(g) + 1
    BY <2>2, AppendProperties
  <2>9. /\ IsInjective(Append(g, e))
        /\ Range(Append(g, e)) = Range(g) \cup {e}
    BY <2>2, <2>5, AppendDistinct
  <2>7. Range(g) = {x \in Range(cache) : SqlOf(x) \notin {s, Evicted(s)}}
    BY <1>1, <2>2, <2>3 DEF Keyed
  <2>8. \A x, y \in Range(g) \cup {e} : SqlOf(x) = SqlOf(y) => x = y
    BY <1>1, <2>2 DEF Keyed
  <2>10. Len(f) - 1 + 1 <= MaxSize
    BY <1>1, <1>2
  <2>11. Keyed(Append(g, e))
    BY <2>6, <2>8, <2>9 DEF Keyed
  <2> QED
    BY <2>2, <2>3, <2>4, <2>6, <2>7, <2>9, <2>10, <2>11
<1>6. CASE ~(Len(f) >= MaxSize)
  <2>1. Evicted(s) = None /\ None # s
    BY <1>6, <1>3 DEF Evicted, f
  <2>2. Added(s, e) = Append(f, e)
    BY <2>1 DEF Added, f
  <2>3. e \notin Range(f)
    BY <1>1
  <2>4. /\ Append(f, e) \in Seq(Entries)
        /\ Len(Append(f, e)) = Len(f) + 1
        /\ IsInjective(Append(f, e))
        /\ Range(Append(f, e)) = Range(f) \cup {e}
    BY <1>2, <2>3, AppendDistinct, AppendProperties
  <2>5. Range(f) = {x \in Range(cache) : SqlOf(x) \notin {s, Evicted(s)}}
    <3>1. \A x \in Range(cache) : SqlOf(x) # None
      BY RangeByIndex, ElementOfSeq DEF Keyed
    <3> QED
      BY <1>1, <2>1, <3>1
  <2>6. \A x, y \in Range(f) \cup {e} : SqlOf(x) = SqlOf(y) => x = y
    BY <1>1 DEF Keyed
  <2>7. Len(f) + 1 <= MaxSize
    BY <1>2, <1>6
  <2> QED
    BY <2>1, <2>2, <2>4, <2>5, <2>6, <2>7 DEF Keyed
<1> QED
  BY <1>5, <1>6

-----------------------------------------------------------------------------
(* What the steps do *)

TypeInv == TypeOK /\ schema <= faults

Reply == [call : Calls, result : Statuses, columns : Versions \cup {None}]

\* What the assumption says of the constants.
LEMMA ConstantFacts ==
  /\ MaxSize \in Nat \ {0} /\ MaxFaults \in Nat
  /\ None \notin Stmts /\ None \notin Entries /\ None \notin Nat /\ None \notin Versions
BY PreparedAssumption DEF MaxSize, Entries, Versions

\* What the types say of the cache.
LEMMA TypeFacts ==
  ASSUME TypeOK
  PROVE  /\ Keyed(cache)
         /\ \A e \in Entries : SqlOf(e) \in Stmts
         /\ Range(cache) \subseteq Entries
<1>1. Keyed(cache)
  BY CacheIsKeyed DEF TypeOK, IsCache
<1>2. \A e \in Entries : SqlOf(e) \in Stmts
  BY DEF TypeOK, Entries, SqlOf
<1>3. Range(cache) \subseteq Entries
  BY RangeByIndex, ElementOfSeq DEF TypeOK
<1> QED
  BY <1>1, <1>2, <1>3

\* The n-th attempt of k: batch b goes out, for entry e.
Staged(k, n, fresh, e, b) ==
  /\ e \in Entries /\ SqlOf(e) = sql[k]
  /\ b \in Batches /\ b.call = k /\ b.formats = oids[e] /\ b.close # sql[k]
  /\ cache' \in Seq(Entries) /\ Keyed(cache') /\ Len(cache') <= MaxSize
  /\ bound' = [bound EXCEPT ![k] = e]
  /\ outbox' = Append(outbox, b)
  /\ status' = [status EXCEPT ![k] = IF n = 1 THEN "sent1" ELSE "sent2"]
  /\ \/ /\ ~fresh /\ e \in Range(cache)
        /\ ~b.parse /\ b.close = None
        /\ Range(cache') = Range(cache)
     \/ /\ fresh \/ ~IsCached(sql[k])
        /\ e = <<k, n>>
        /\ b.parse
        /\ Range(cache') = {x \in Range(cache) : SqlOf(x) \notin {sql[k], b.close}} \cup {e}

\* Every attempt puts one batch behind the others, for a hit or for a miss.
LEMMA StageFacts ==
  ASSUME TypeOK, NEW k \in Calls, NEW n \in {1, 2}, NEW fresh \in BOOLEAN,
         Stage(k, n, fresh)
  PROVE  \E e \in Entries, b \in Batches : Staged(k, n, fresh, e, b)
<1> DEFINE s == sql[k]
           hit == ~fresh /\ IsCached(s)
           e == IF hit THEN EntryFor(s) ELSE <<k, n>>
           b == [call |-> k, close |-> IF hit THEN None ELSE CloseFor(s),
                 parse |-> ~hit, formats |-> oids[e]]
<1>1. /\ Keyed(cache) /\ Len(cache) <= MaxSize
      /\ MaxSize \in Nat \ {0} /\ None \notin Stmts
      /\ \A x \in Entries : SqlOf(x) \in Stmts
      /\ s \in Stmts
  BY TypeFacts, ConstantFacts DEF TypeOK
<1>2. /\ cache' = IF hit THEN Bumped(s) ELSE Added(s, e)
      /\ bound' = [bound EXCEPT ![k] = e]
      /\ outbox' = Append(outbox, b)
      /\ status' = [status EXCEPT ![k] = IF n = 1 THEN "sent1" ELSE "sent2"]
  BY DEF Stage
<1>3. <<k, n>> \in Entries /\ SqlOf(<<k, n>>) = s
  BY DEF Entries, SqlOf
<1>4. CASE hit
  <2>1. /\ EntryFor(s) \in Range(cache) /\ EntryFor(s) \in Entries /\ SqlOf(EntryFor(s)) = s
        /\ Keyed(Bumped(s)) /\ Range(Bumped(s)) = Range(cache) /\ Len(Bumped(s)) = Len(cache)
    BY <1>1, <1>4, EntryFacts, BumpedFacts
  <2>2. e = EntryFor(s) /\ cache' = Bumped(s)
    BY <1>2, <1>4
  <2>3. oids[e] \in Versions \cup {None}
    BY <2>1, <2>2 DEF TypeOK
  <2>4. /\ b \in Batches /\ b.call = k /\ b.formats = oids[e] /\ b.close = None
        /\ ~b.parse
    BY <1>4, <2>3 DEF Batches
  <2> HIDE DEF b, e, hit
  <2>5. Staged(k, n, fresh, e, b)
    BY <1>1, <1>2, <1>4, <2>1, <2>2, <2>4 DEF Staged, Keyed, hit
  <2> QED
    BY <2>1, <2>2, <2>4, <2>5
<1>5. CASE ~hit
  <2>1. e = <<k, n>>
    BY <1>5
  <2>2. /\ Keyed(Added(s, e))
        /\ Range(Added(s, e)) =
             {x \in Range(cache) : SqlOf(x) \notin {s, Evicted(s)}} \cup {e}
        /\ Len(Added(s, e)) <= MaxSize
        /\ Evicted(s) \in Stmts \cup {None}
        /\ Evicted(s) # s
    BY <1>1, <1>3, <2>1, AddedFacts
  <2>3. oids[e] \in Versions \cup {None}
    BY <1>3, <2>1 DEF TypeOK
  <2>4. /\ b \in Batches /\ b.call = k /\ b.formats = oids[e] /\ b.close = Evicted(s)
        /\ b.parse
    BY <1>5, <2>2, <2>3 DEF Batches, CloseFor
  <2>5. cache' = Added(s, e)
    BY <1>2, <1>5
  <2> HIDE DEF b, e
  <2>6. fresh \/ ~IsCached(s)
    BY <1>5
  <2> HIDE DEF hit
  <2>7. Staged(k, n, fresh, e, b)
    BY <1>1, <1>2, <1>3, <2>1, <2>2, <2>4, <2>5, <2>6 DEF Staged, Keyed
  <2> QED
    BY <1>3, <2>1, <2>4, <2>7
<1> QED
  BY <1>4, <1>5

\* The server runs batch b, answers r, with columns v.
Ran(b, r, v) ==
  LET s == sql[b.call]
  IN  /\ b \in Batches /\ r \in Results /\ v \in Versions \cup {None}
      /\ outbox' = Tail(outbox)
      /\ answers' = Append(answers, [call |-> b.call, result |-> r, columns |-> v])
      /\ UNCHANGED <<clientVars, schema>>
      /\ faults' \in faults .. MaxFaults
      /\ table' \in [Stmts -> Versions \cup {None}]
      /\ \A t \in Stmts :
           table'[t] # None => \/ table'[t] = table[t] /\ t # b.close
                               \/ table'[t] = schema /\ t = s /\ b.parse
      /\ v # None => v = schema /\ table'[s] = schema
      /\ r = "08P01" => b.formats \notin {None, schema} /\ table'[s] = schema
      /\ r = "26000" => ~b.parse /\ table'[s] = None
      /\ r = "42P05" => b.parse /\ s # b.close /\ table[s] # None
      /\ r = "0A000" => table'[s] # schema \/ s \in tangled'
      /\ \A t \in Stmts : t # b.close /\ table[t] # None => table'[t] = table[t]
      /\ disturbed \subseteq disturbed' /\ disturbed' \subseteq Stmts
      /\ tangled \subseteq tangled' /\ tangled' \subseteq Stmts
      /\ s \notin disturbed' =>
           /\ b.parse => table'[s] # None
           /\ \/ b.parse /\ (s = b.close \/ table[s] = None)
              \/ ~b.parse /\ s # b.close /\ table[s] = schema
              => r \in {"done", "08P01"}

\* Every way the server may treat a batch.
LEMMA RunFacts ==
  ASSUME TypeOK, ServerRuns
  PROVE  /\ outbox # <<>>
         /\ \E r \in Results, v \in Versions \cup {None} : Ran(Head(outbox), r, v)
<1> DEFINE b == Head(outbox)
           s == sql[b.call]
           closed == [t \in Stmts |-> IF t = b.close THEN None ELSE table[t]]
           taken == b.parse /\ closed[s] # None
           parsed == IF b.parse /\ ~taken THEN [closed EXCEPT ![s] = schema] ELSE closed
           planned == ~taken /\ parsed[s] = schema
           Says(r, v) == answers' = Append(answers, [call |-> b.call, result |-> r,
                                                     columns |-> v])
<1>1. outbox # <<>>
  BY DEF ServerRuns
<1>2. b \in Batches
  BY <1>1, HeadTailProperties DEF TypeOK
<1>3. /\ s \in Stmts /\ schema \in Versions /\ None \notin Versions /\ b.parse \in BOOLEAN
      /\ schema # None
      /\ faults \in 0 .. MaxFaults /\ MaxFaults \in Nat
      /\ table \in [Stmts -> Versions \cup {None}]
      /\ disturbed \subseteq Stmts /\ tangled \subseteq Stmts
  BY <1>2, ConstantFacts DEF TypeOK, Batches
<1>4. /\ outbox' = Tail(outbox)
      /\ UNCHANGED <<clientVars, schema>>
  BY DEF ServerRuns
<1>5. \/ /\ b.parse /\ ~taken /\ Fault({s})
         /\ \E r \in {"done", "0A000"} : Says(r, None)
         /\ table' = closed /\ UNCHANGED tangled
      \/ /\ planned /\ "unsupported" \in Faults /\ Fault({s})
         /\ Says("0A000", schema) /\ table' = parsed /\ tangled' = tangled \cup {s}
      \/ /\ planned
         /\ Says(IF b.formats \in {None, schema} THEN "done" ELSE "08P01", schema)
         /\ table' = parsed /\ NoFault /\ UNCHANGED tangled
      \/ /\ ~planned
         /\ Says(IF taken THEN "42P05" ELSE IF parsed[s] = None THEN "26000"
                                                            ELSE "0A000", None)
         /\ table' = parsed /\ NoFault /\ UNCHANGED tangled
  BY DEF ServerRuns
<1>6. closed \in [Stmts -> Versions \cup {None}] /\ parsed \in [Stmts -> Versions \cup {None}]
  BY <1>3
<1> DEFINE Grows == /\ faults' \in faults .. MaxFaults
                    /\ disturbed \subseteq disturbed' /\ disturbed' \subseteq Stmts
<1>7. Fault({s}) => Grows /\ s \in disturbed'
  BY <1>3 DEF Fault
<1>8. NoFault => Grows
  BY <1>3 DEF NoFault
<1>9. /\ \A t \in Stmts : closed[t] # None => closed[t] = table[t] /\ t # b.close
      /\ \A t \in Stmts : t # b.close /\ table[t] # None => closed[t] = table[t]
      /\ b.parse /\ ~taken => closed[s] = None
  BY <1>3
<1>10. \A t \in Stmts :
         parsed[t] # None => \/ parsed[t] = table[t] /\ t # b.close
                             \/ parsed[t] = schema /\ t = s /\ b.parse
  BY <1>3, <1>9
<1>11. /\ \A t \in Stmts : t # b.close /\ table[t] # None => parsed[t] = table[t]
       /\ b.parse => parsed[s] # None
       /\ b.parse /\ (s = b.close \/ table[s] = None) => planned
       /\ ~b.parse /\ s # b.close /\ table[s] = schema => planned
       /\ taken => b.parse /\ s # b.close /\ table[s] # None
       /\ ~planned /\ ~taken => parsed[s] # schema
       /\ parsed[s] = None => ~b.parse
  BY <1>3
<1>12. Says("done", None) \/ Says("0A000", None) =>
         \E r \in Results, v \in Versions \cup {None} :
           Says(r, v) /\ v = None /\ r # "08P01"
  BY DEF Results
<1> HIDE DEF parsed, closed, taken, Says
<1>13. CASE /\ b.parse /\ ~taken /\ Fault({s})
            /\ \E r \in {"done", "0A000"} : Says(r, None)
            /\ table' = closed /\ UNCHANGED tangled
  <2>1. PICK r \in Results : Says(r, None) /\ r \in {"done", "0A000"}
    BY <1>13 DEF Results
  <2>2. Ran(b, r, None)
    BY <2>1, <1>13, <1>2, <1>3, <1>4, <1>6, <1>7, <1>9 DEF Ran, Says
  <2> QED
    BY <2>2, <1>1
<1>14. CASE /\ planned /\ "unsupported" \in Faults /\ Fault({s})
            /\ Says("0A000", schema) /\ table' = parsed /\ tangled' = tangled \cup {s}
  <2>1. "0A000" \in Results /\ "0A000" # "08P01"
    BY DEF Results
  <2>2. Ran(b, "0A000", schema)
    BY <2>1, <1>14, <1>2, <1>3, <1>4, <1>6, <1>7, <1>10, <1>11 DEF Ran, Says
  <2> QED
    BY <2>1, <2>2, <1>1, <1>3
<1>15. CASE /\ planned
            /\ Says(IF b.formats \in {None, schema} THEN "done" ELSE "08P01", schema)
            /\ table' = parsed /\ NoFault /\ UNCHANGED tangled
  <2> DEFINE r == IF b.formats \in {None, schema} THEN "done" ELSE "08P01"
  <2>1. /\ r \in Results /\ r \in {"done", "08P01"}
        /\ r = "08P01" => b.formats \notin {None, schema}
    BY DEF Results
  <2> HIDE DEF r
  <2>2. Says(r, schema)
    BY <1>15 DEF r
  <2>3. Ran(b, r, schema)
    BY <2>1, <2>2, <1>15, <1>2, <1>3, <1>4, <1>6, <1>8, <1>10, <1>11 DEF Ran, Says
  <2> QED
    BY <2>1, <2>3, <1>1, <1>3
<1>16. CASE /\ ~planned
            /\ Says(IF taken THEN "42P05" ELSE IF parsed[s] = None THEN "26000"
                                                               ELSE "0A000", None)
            /\ table' = parsed /\ NoFault /\ UNCHANGED tangled
  <2> DEFINE r == IF taken THEN "42P05" ELSE IF parsed[s] = None THEN "26000" ELSE "0A000"
  <2>1. /\ r \in {"42P05", "26000", "0A000"}
        /\ r = "42P05" => taken
        /\ r = "26000" => parsed[s] = None
        /\ r = "0A000" => ~taken
    OBVIOUS
  <2>4. r \in Results
    BY <2>1 DEF Results
  <2> HIDE DEF r
  <2>2. Says(r, None)
    BY <1>16 DEF r
  <2>3. Ran(b, r, None)
    BY <2>1, <2>2, <2>4, <1>16, <1>2, <1>3, <1>4, <1>6, <1>8, <1>10, <1>11 DEF Ran, Says
  <2> QED
    BY <2>3, <2>4, <1>1
<1> QED
  BY <1>5, <1>13, <1>14, <1>15, <1>16

-----------------------------------------------------------------------------
(* Type correctness *)

\* An attempt goes out: the first one of extQuery(), or the second one.
StageStep(k, n, fresh, e, b) ==
  /\ \/ n = 1 /\ status[k] = "new" /\ fresh = PreparedDisabled
     \/ n = 2 /\ status[k] = "retrying" /\ fresh = TRUE
  /\ Staged(k, n, fresh, e, b)
  /\ tangled \subseteq tangled' /\ tangled' \subseteq Stmts
  /\ n = 1 /\ sql[k] \notin tangled' => \A l \in Calls : sql[l] = sql[k] => ~Open(l)
  /\ UNCHANGED <<sql, oids, answers, serverVars>>

\* The steps, one by one.
LEMMA StepCases ==
  ASSUME TypeOK, [Next]_vars
  PROVE  \/ \E k \in Calls, n \in {1, 2}, fresh \in BOOLEAN, e \in Entries, b \in Batches :
              StageStep(k, n, fresh, e, b)
         \/ \E k \in Calls : Abandon(k)
         \/ Receive
         \/ /\ outbox # <<>>
            /\ \E r \in Results, v \in Versions \cup {None} : Ran(Head(outbox), r, v)
         \/ Migrate
         \/ Deallocate
         \/ UNCHANGED vars
<1>1. ASSUME NEW k \in Calls, ExtQuery(k)
      PROVE  \E n \in {1, 2}, fresh \in BOOLEAN, e \in Entries, b \in Batches :
               StageStep(k, n, fresh, e, b)
  <2>1. PreparedDisabled \in BOOLEAN /\ 1 \in {1, 2} /\ Stage(k, 1, PreparedDisabled)
    BY <1>1 DEF ExtQuery, PreparedDisabled
  <2>2. \E e \in Entries, b \in Batches : Staged(k, 1, PreparedDisabled, e, b)
    BY <2>1, StageFacts
  <2>3. /\ tangled \subseteq tangled' /\ tangled' \subseteq Stmts
        /\ sql[k] \notin tangled' => \A l \in Calls : sql[l] = sql[k] => ~Open(l)
    BY <1>1 DEF ExtQuery, TypeOK
  <2> QED
    BY <1>1, <2>1, <2>2, <2>3 DEF ExtQuery, StageStep
<1>2. ASSUME NEW k \in Calls, Reprepare(k)
      PROVE  \E n \in {1, 2}, fresh \in BOOLEAN, e \in Entries, b \in Batches :
               StageStep(k, n, fresh, e, b)
  <2>1. TRUE \in BOOLEAN /\ 2 \in {1, 2} /\ Stage(k, 2, TRUE)
    BY <1>2 DEF Reprepare
  <2>2. \E e \in Entries, b \in Batches : Staged(k, 2, TRUE, e, b)
    BY <2>1, StageFacts
  <2>3. /\ tangled \subseteq tangled' /\ tangled' \subseteq Stmts
        /\ 2 # 1
    BY <1>2 DEF Reprepare, TypeOK
  <2> QED
    BY <1>2, <2>1, <2>2, <2>3 DEF Reprepare, StageStep
<1>3. ServerRuns =>
        /\ outbox # <<>>
        /\ \E r \in Results, v \in Versions \cup {None} : Ran(Head(outbox), r, v)
  BY RunFacts
<1> QED
  BY <1>1, <1>2, <1>3 DEF Next

\* The types are inductive, with a schema no newer than the faults allow.
LEMMA Types ==
  ASSUME TypeInv, [Next]_vars
  PROVE  TypeInv'
<1>1. TypeOK /\ schema <= faults
  BY DEF TypeInv
<1>2. /\ faults \in 0 .. MaxFaults /\ schema \in Versions /\ Versions = 0 .. MaxFaults
      /\ MaxFaults \in Nat
      /\ sql' = sql
  BY <1>1, ConstantFacts
     DEF TypeOK, Versions, Next, ExtQuery, Reprepare, Abandon, Receive, ServerRuns,
         Migrate, Deallocate, vars, clientVars
<1>3. ASSUME NEW k \in Calls, NEW n \in {1, 2}, NEW fresh \in BOOLEAN,
             NEW e \in Entries, NEW b \in Batches, StageStep(k, n, fresh, e, b)
      PROVE  TypeInv'
  <2>1. /\ cache' \in Seq(Entries) /\ Keyed(cache') /\ Len(cache') <= MaxSize
        /\ bound' = [bound EXCEPT ![k] = e]
        /\ outbox' = Append(outbox, b)
        /\ status' = [status EXCEPT ![k] = IF n = 1 THEN "sent1" ELSE "sent2"]
        /\ UNCHANGED <<sql, oids, answers, table, schema, faults, disturbed>>
        /\ tangled' \subseteq Stmts
    BY <1>3 DEF StageStep, Staged, serverVars
  <2>2. IsCache(cache')
    BY <2>1, CacheIsKeyed
  <2>3. \A i, j \in DOMAIN cache' : (SqlOf(cache[i]))' = (SqlOf(cache[j]))' => i = j
    BY <2>1, <2>2 DEF IsCache, SqlOf
  <2>4. /\ bound' \in [Calls -> Entries \cup {None}]
        /\ status' \in [Calls -> Statuses]
    BY <2>1, <1>1 DEF TypeOK, Statuses
  <2>5. outbox' \in Seq(Batches)
    BY <2>1, <1>1, AppendProperties DEF TypeOK
  <2> QED
    BY <1>1, <2>1, <2>3, <2>4, <2>5 DEF TypeInv, TypeOK
<1>4. ASSUME NEW k \in Calls, Abandon(k)
      PROVE  TypeInv'
  <2>1. /\ cache' = Forgotten(sql[k])
        /\ status' = [status EXCEPT ![k] = "abandoned"]
        /\ UNCHANGED <<sql, oids, bound, outbox, answers, table, schema, faults,
                       disturbed, tangled>>
    BY <1>4 DEF Abandon, serverVars
  <2>2. /\ Keyed(cache) /\ Len(cache) <= MaxSize /\ cache \in Seq(Entries)
        /\ MaxSize \in Nat
    BY <1>1, TypeFacts, ConstantFacts DEF TypeOK
  <2>3. Keyed(cache') /\ Len(cache') <= Len(cache)
    BY <2>1, <2>2, ForgottenFacts
  <2>4. IsCache(cache')
    BY <2>3, CacheIsKeyed
  <2>5. \A i, j \in DOMAIN cache' : (SqlOf(cache[i]))' = (SqlOf(cache[j]))' => i = j
    BY <2>1, <2>4 DEF IsCache, SqlOf
  <2>6. Len(cache') <= MaxSize /\ cache' \in Seq(Entries)
    BY <2>2, <2>3, <2>4, LenProperties DEF IsCache
  <2>7. status' \in [Calls -> Statuses]
    BY <2>1, <1>1 DEF TypeOK, Statuses
  <2> QED
    BY <1>1, <2>1, <2>5, <2>6, <2>7 DEF TypeInv, TypeOK
<1>5. ASSUME Receive
      PROVE  TypeInv'
  <2> DEFINE a == Head(answers)
  <2>1. a \in Reply /\ answers' \in Seq(Reply)
    BY <1>1, <1>5, HeadTailProperties DEF Receive, TypeOK, Reply
  <2>2. /\ oids' = IF a.columns # None /\ oids[bound[a.call]] = None
                   THEN [oids EXCEPT ![bound[a.call]] = a.columns]
                   ELSE oids
        /\ bound' = [bound EXCEPT ![a.call] = None]
        /\ status' = [status EXCEPT ![a.call] =
                        IF @ = "sent1" /\ a.result \in Retryable
                        THEN "retrying" ELSE a.result]
        /\ UNCHANGED <<sql, cache, outbox, table, schema, faults, disturbed, tangled>>
    BY <1>5 DEF Receive, serverVars
  <2> HIDE DEF a
  <2>3. oids' \in [Entries -> Versions \cup {None}]
    BY <1>1, <2>1, <2>2 DEF TypeOK, Reply
  <2>4. bound' \in [Calls -> Entries \cup {None}] /\ status' \in [Calls -> Statuses]
    BY <1>1, <2>1, <2>2 DEF TypeOK, Reply, Statuses
  <2>5. \A i, j \in DOMAIN cache' : (SqlOf(cache[i]))' = (SqlOf(cache[j]))' => i = j
    BY <1>1, <2>2 DEF TypeOK, SqlOf
  <2> QED
    BY <1>1, <2>1, <2>2, <2>3, <2>4, <2>5 DEF TypeInv, TypeOK, Reply
<1>6. ASSUME outbox # <<>>, NEW r \in Results, NEW v \in Versions \cup {None},
             Ran(Head(outbox), r, v)
      PROVE  TypeInv'
  <2> DEFINE b == Head(outbox)
             a == [call |-> b.call, result |-> r, columns |-> v]
  <2>1. /\ b \in Batches
        /\ outbox' = Tail(outbox) /\ answers' = Append(answers, a)
        /\ UNCHANGED <<sql, cache, oids, status, bound, schema>>
        /\ faults' \in faults .. MaxFaults
        /\ table' \in [Stmts -> Versions \cup {None}]
        /\ disturbed' \subseteq Stmts /\ tangled' \subseteq Stmts
    BY <1>6 DEF Ran, clientVars
  <2>2. a \in Reply
    BY <2>1 DEF Reply, Batches, Results, Statuses
  <2> HIDE DEF a, b
  <2>3. answers' \in Seq(Reply) /\ outbox' \in Seq(Batches)
    BY <1>1, <1>6, <2>1, <2>2, AppendProperties, HeadTailProperties DEF TypeOK, Reply
  <2>4. \A i, j \in DOMAIN cache' : (SqlOf(cache[i]))' = (SqlOf(cache[j]))' => i = j
    BY <1>1, <2>1 DEF TypeOK, SqlOf
  <2>5. faults' \in 0 .. MaxFaults /\ schema' <= faults' /\ schema' \in Versions
    BY <1>1, <1>2, <2>1
  <2> QED
    BY <1>1, <2>1, <2>3, <2>4, <2>5 DEF TypeInv, TypeOK, Reply
<1>7. ASSUME Migrate
      PROVE  TypeInv'
  <2>1. /\ faults < MaxFaults /\ faults' = faults + 1 /\ schema' = schema + 1
        /\ disturbed' \subseteq Stmts /\ tangled' \subseteq Stmts
        /\ UNCHANGED <<sql, cache, oids, status, bound, outbox, answers, table>>
    BY <1>1, <1>7 DEF Migrate, Fault, AtServer, TypeOK, clientVars
  <2>2. faults' \in 0 .. MaxFaults /\ schema' \in 0 .. MaxFaults /\ schema' <= faults'
    BY <1>1, <1>2, <2>1
  <2>3. \A i, j \in DOMAIN cache' : (SqlOf(cache[i]))' = (SqlOf(cache[j]))' => i = j
    BY <1>1, <2>1 DEF TypeOK, SqlOf
  <2> QED
    BY <1>1, <2>1, <2>2, <2>3 DEF TypeInv, TypeOK, Versions
<1>8. ASSUME Deallocate
      PROVE  TypeInv'
  <2>1. /\ faults < MaxFaults /\ faults' = faults + 1
        /\ table' = [s \in Stmts |-> None]
        /\ disturbed' \subseteq Stmts /\ tangled' \subseteq Stmts
        /\ UNCHANGED <<sql, cache, oids, status, bound, outbox, answers, schema>>
    BY <1>1, <1>8 DEF Deallocate, Fault, AtServer, TypeOK, clientVars
  <2>2. faults' \in 0 .. MaxFaults /\ schema' <= faults'
    BY <1>1, <1>2, <2>1
  <2>3. \A i, j \in DOMAIN cache' : (SqlOf(cache[i]))' = (SqlOf(cache[j]))' => i = j
    BY <1>1, <2>1 DEF TypeOK, SqlOf
  <2> QED
    BY <1>1, <2>1, <2>2, <2>3 DEF TypeInv, TypeOK
<1>9. ASSUME UNCHANGED vars
      PROVE  TypeInv'
  <2>1. UNCHANGED <<sql, cache, oids, status, bound, outbox, answers, table, schema, faults,
                    disturbed, tangled>>
    BY <1>9 DEF vars, clientVars, serverVars
  <2>2. \A i, j \in DOMAIN cache' : (SqlOf(cache[i]))' = (SqlOf(cache[j]))' => i = j
    BY <1>1, <2>1 DEF TypeOK, SqlOf
  <2> QED
    BY <1>1, <2>1, <2>2 DEF TypeInv, TypeOK
<1> QED
  BY <1>1, <1>3, <1>4, <1>5, <1>6, <1>7, <1>8, <1>9, StepCases

\* Initially.
LEMMA InitTypes == Init => TypeInv
<1> SUFFICES ASSUME Init PROVE TypeInv
  OBVIOUS
<1>1. /\ sql \in [Calls -> Stmts]
      /\ cache = <<>> /\ outbox = <<>> /\ answers = <<>>
      /\ oids = [e \in Entries |-> None]
      /\ status = [k \in Calls |-> "new"]
      /\ bound = [k \in Calls |-> None]
      /\ table = [s \in Stmts |-> None]
      /\ schema = 0 /\ faults = 0 /\ disturbed = {} /\ tangled = {}
  BY DEF Init
<1>2. 0 \in Versions /\ 0 \in 0 .. MaxFaults /\ 0 <= MaxSize
  BY ConstantFacts DEF Versions
<1>3. /\ cache \in Seq(Entries) /\ Len(cache) = 0
      /\ outbox \in Seq(Batches) /\ answers \in Seq(Reply)
  BY <1>1, EmptySeq
<1>4. \A i, j \in DOMAIN cache : SqlOf(cache[i]) = SqlOf(cache[j]) => i = j
  BY <1>1
<1>5. status \in [Calls -> Statuses]
  BY <1>1 DEF Statuses
<1> QED
  BY <1>1, <1>2, <1>3, <1>4, <1>5 DEF TypeInv, TypeOK, Reply

\* The variables keep their types, and the cache stays a map within its limit,
\* whatever bump(), add() and forget() do to it and the server answers.
THEOREM TypeCorrect == Spec => []TypeOK
<1>1. Init => TypeInv
  BY InitTypes
<1>2. TypeInv /\ [Next]_vars => TypeInv'
  BY Types
<1>3. TypeInv => TypeOK
  BY DEF TypeInv
<1> QED
  BY <1>1, <1>2, <1>3, PTL DEF Spec

-----------------------------------------------------------------------------
(* Calls under way, and entries not created yet *)

FlightInv == UnderWay /\ Fresh

\* What Receive does, for the answer at the head.
LEMMA ReceiveFacts ==
  ASSUME TypeOK, Receive
  PROVE  /\ answers # <<>> /\ answers' = Tail(answers)
         /\ answers[1] \in Reply
         /\ oids' = IF answers[1].columns # None /\ oids[bound[answers[1].call]] = None
                    THEN [oids EXCEPT ![bound[answers[1].call]] = answers[1].columns]
                    ELSE oids
         /\ bound' = [bound EXCEPT ![answers[1].call] = None]
         /\ status' = [status EXCEPT ![answers[1].call] =
                         IF @ = "sent1" /\ answers[1].result \in Retryable
                         THEN "retrying" ELSE answers[1].result]
         /\ UNCHANGED <<sql, cache, outbox, table, schema, faults, disturbed, tangled>>
<1>1. answers # <<>> /\ answers \in Seq(Reply)
  BY DEF Receive, TypeOK, Reply
<1>2. Head(answers) = answers[1] /\ answers[1] \in Reply
  BY <1>1, Dequeued, ElementOfSeq
<1> QED
  BY <1>1, <1>2 DEF Receive, serverVars

\* No call is in two places, and no entry is used before it is created.
LEMMA Flights ==
  ASSUME TypeInv, FlightInv, [Next]_vars
  PROVE  FlightInv'
<1>1. TypeOK /\ UnderWay /\ Fresh
  BY DEF TypeInv, FlightInv
<1>2. /\ sql \in [Calls -> Stmts] /\ outbox \in Seq(Batches) /\ answers \in Seq(Reply)
      /\ status \in [Calls -> Statuses] /\ bound \in [Calls -> Entries \cup {None}]
      /\ oids \in [Entries -> Versions \cup {None}]
      /\ Keyed(cache) /\ Range(cache) \subseteq Entries
      /\ Len(outbox) \in Nat /\ Len(answers) \in Nat
      /\ None \notin Entries
  BY <1>1, TypeFacts, ConstantFacts, LenProperties DEF TypeOK, Reply
<1>3. /\ \A i \in 1 .. Len(outbox) : outbox[i] \in Batches /\ outbox[i].call \in Calls
      /\ \A i \in 1 .. Len(answers) : answers[i] \in Reply /\ answers[i].call \in Calls
  <2>1. /\ \A i \in 1 .. Len(outbox) : outbox[i] \in Batches
        /\ \A i \in 1 .. Len(answers) : answers[i] \in Reply
    BY <1>2, ElementOfSeq
  <2> QED
    BY <2>1 DEF Batches, Reply
<1>4. ASSUME NEW k \in Calls, NEW n \in {1, 2}, NEW fresh \in BOOLEAN,
             NEW e \in Entries, NEW b \in Batches, StageStep(k, n, fresh, e, b)
      PROVE  FlightInv'
  <2>1. /\ (n = 1 /\ status[k] = "new") \/ (n = 2 /\ status[k] = "retrying")
        /\ SqlOf(e) = sql[k] /\ b.call = k
        /\ bound' = [bound EXCEPT ![k] = e]
        /\ outbox' = Append(outbox, b)
        /\ status' = [status EXCEPT ![k] = IF n = 1 THEN "sent1" ELSE "sent2"]
        /\ UNCHANGED <<sql, oids, answers>>
    <3>1. /\ (n = 1 /\ status[k] = "new") \/ (n = 2 /\ status[k] = "retrying")
          /\ UNCHANGED <<sql, oids, answers>>
      BY <1>4 DEF StageStep, serverVars
    <3>2. /\ SqlOf(e) = sql[k] /\ b.call = k
          /\ bound' = [bound EXCEPT ![k] = e]
          /\ outbox' = Append(outbox, b)
          /\ status' = [status EXCEPT ![k] = IF n = 1 THEN "sent1" ELSE "sent2"]
      BY <1>4 DEF StageStep, Staged
    <3> QED
      BY <3>1, <3>2
  <2>9. /\ Range(cache') \subseteq Range(cache) \cup {<<k, n>>}
        /\ e \in Range(cache) \cup {<<k, n>>}
    <3>1. \/ e \in Range(cache) /\ Range(cache') = Range(cache)
          \/ /\ e = <<k, n>>
             /\ Range(cache') = {x \in Range(cache) : SqlOf(x) \notin {sql[k], b.close}} \cup {e}
      BY <1>4 DEF StageStep, Staged
    <3> QED
      BY <3>1
  <2>2. /\ Len(outbox') = Len(outbox) + 1
        /\ \A i \in 1 .. Len(outbox) : outbox'[i] = outbox[i]
        /\ outbox'[Len(outbox) + 1] = b
    BY <1>2, <2>1, Enqueued
  <2>3. /\ \A i \in 1 .. Len(outbox) : outbox[i].call # k
        /\ \A i \in 1 .. Len(answers) : answers[i].call # k
    BY <1>1, <2>1 DEF UnderWay
  <2>4. /\ status'[k] \in {"sent1", "sent2"} /\ bound'[k] = e
        /\ \A l \in Calls : l # k => status'[l] = status[l] /\ bound'[l] = bound[l]
    BY <1>2, <2>1
  <2>5. \A i \in 1 .. Len(outbox') : i \in 1 .. Len(outbox) \/ i = Len(outbox) + 1
    BY <1>2, <2>2
  <2>6. UnderWay'
    <3>1. \A i \in 1 .. Len(outbox') :
            /\ status'[outbox'[i].call] \in {"sent1", "sent2"}
            /\ bound'[outbox'[i].call] \in Entries
            /\ sql'[bound'[outbox'[i].call][1]] = sql'[outbox'[i].call]
      BY <1>1, <1>3, <2>1, <2>2, <2>3, <2>4, <2>5 DEF UnderWay, SqlOf, SqlAt
    <3>2. \A i \in 1 .. Len(answers') :
            /\ status'[answers'[i].call] \in {"sent1", "sent2"}
            /\ bound'[answers'[i].call] \in Entries
            /\ sql'[bound'[answers'[i].call][1]] = sql'[answers'[i].call]
            /\ answers'[i].result \in Results
      BY <1>1, <1>3, <2>1, <2>3, <2>4 DEF UnderWay, SqlOf
    <3>4. \A i, j \in 1 .. Len(outbox) : outbox[i].call = outbox[j].call => i = j
      BY <1>1 DEF UnderWay
    <3>5. \A i, j \in 1 .. Len(outbox') : outbox'[i].call = outbox'[j].call => i = j
      BY <3>4, <2>1, <2>2, <2>3, <2>5
    <3>6. \A i \in 1 .. Len(outbox), j \in 1 .. Len(answers) : outbox[i].call # answers[j].call
      BY <1>1 DEF UnderWay
    <3>7. \A i \in 1 .. Len(outbox'), j \in 1 .. Len(answers') :
            outbox'[i].call # answers'[j].call
      BY <3>6, <2>1, <2>2, <2>3, <2>5
    <3>3. /\ \A i, j \in 1 .. Len(outbox') : outbox'[i].call = outbox'[j].call => i = j
          /\ \A i, j \in 1 .. Len(answers') : answers'[i].call = answers'[j].call => i = j
          /\ \A i \in 1 .. Len(outbox'), j \in 1 .. Len(answers') :
               outbox'[i].call # answers'[j].call
      BY <1>1, <2>1, <3>5, <3>7 DEF UnderWay
    <3> QED
      BY <3>1, <3>2, <3>3 DEF UnderWay, SqlOf, SqlAt
  <2>7. ASSUME NEW x \in Entries, Unmade(x)'
        PROVE  Unmade(x) /\ x # <<k, n>>
    <3>1. x[1] \in Calls /\ x[2] \in {1, 2} /\ x = <<x[1], x[2]>>
      BY DEF Entries
    <3>2. CASE x[1] = k
      BY <3>1, <3>2, <2>1, <2>7, <1>2 DEF Unmade
    <3>3. CASE x[1] # k
      BY <3>1, <3>3, <2>4, <2>7 DEF Unmade
    <3> QED
      BY <3>2, <3>3
  <2>8. Fresh'
    BY <1>1, <2>1, <2>4, <2>7, <2>9 DEF Fresh
  <2> QED
    BY <2>6, <2>8 DEF FlightInv
<1>5. ASSUME NEW k \in Calls, Abandon(k)
      PROVE  FlightInv'
  <2>1. /\ status[k] = "retrying"
        /\ cache' = Forgotten(sql[k])
        /\ status' = [status EXCEPT ![k] = "abandoned"]
        /\ UNCHANGED <<sql, oids, bound, outbox, answers>>
    BY <1>5 DEF Abandon
  <2>2. Range(cache') \subseteq Range(cache)
    BY <1>2, <2>1, ForgottenFacts
  <2>3. /\ \A i \in 1 .. Len(outbox) : outbox[i].call # k
        /\ \A i \in 1 .. Len(answers) : answers[i].call # k
    BY <1>1, <2>1 DEF UnderWay
  <2>4. \A l \in Calls : status'[l] = IF l = k THEN "abandoned" ELSE status[l]
    BY <1>2, <2>1
  <2>5. UnderWay'
    BY <1>1, <1>3, <2>1, <2>3, <2>4 DEF UnderWay, SqlOf, SqlAt
  <2>6. \A x \in Entries : Unmade(x)' => Unmade(x)
    BY <2>4 DEF Unmade, Entries
  <2>7. Fresh'
    BY <1>1, <2>1, <2>2, <2>6 DEF Fresh
  <2> QED
    BY <2>5, <2>7 DEF FlightInv
<1>6. ASSUME Receive
      PROVE  FlightInv'
  <2> DEFINE a == answers[1]
             e == bound[a.call]
  <2>1. /\ answers # <<>> /\ answers' = Tail(answers)
        /\ a \in Reply
        /\ oids' = IF a.columns # None /\ oids[e] = None
                   THEN [oids EXCEPT ![e] = a.columns] ELSE oids
        /\ bound' = [bound EXCEPT ![a.call] = None]
        /\ status' = [status EXCEPT ![a.call] =
                        IF @ = "sent1" /\ a.result \in Retryable
                        THEN "retrying" ELSE a.result]
        /\ UNCHANGED <<sql, cache, outbox, table, schema, faults, disturbed>>
    BY <1>1, <1>6, ReceiveFacts
  <2>2. /\ Len(answers') = Len(answers) - 1
        /\ 1 \in 1 .. Len(answers)
        /\ \A i \in 1 .. Len(answers) - 1 :
             answers'[i] = answers[i + 1] /\ i + 1 \in 1 .. Len(answers)
    BY <1>2, <2>1, Dequeued
  <2>3. /\ a.call \in Calls /\ status[a.call] \in {"sent1", "sent2"} /\ e \in Entries
        /\ a.result \in Results
        /\ \A i \in 1 .. Len(outbox) : outbox[i].call # a.call
        /\ \A i \in 2 .. Len(answers) : answers[i].call # a.call
    BY <1>1, <1>3, <2>2 DEF UnderWay
  <2> HIDE DEF a, e
  <2>4. /\ \A l \in Calls : l # a.call => status'[l] = status[l] /\ bound'[l] = bound[l]
        /\ bound'[a.call] = None
        /\ status'[a.call] \in Results \cup {"retrying"}
        /\ status'[a.call] = "retrying" => status[a.call] = "sent1"
    BY <1>2, <2>1, <2>3 DEF Results
  <2>5. \A i \in 1 .. Len(answers') :
          /\ answers'[i] = answers[i + 1] /\ i + 1 \in 1 .. Len(answers)
          /\ answers[i + 1].call # a.call
    BY <1>2, <2>2, <2>3
  <2>6. UnderWay'
    <3>1. \A i \in 1 .. Len(outbox') :
            /\ status'[outbox'[i].call] \in {"sent1", "sent2"}
            /\ bound'[outbox'[i].call] \in Entries
            /\ sql'[bound'[outbox'[i].call][1]] = sql'[outbox'[i].call]
      BY <1>1, <1>3, <2>1, <2>3, <2>4 DEF UnderWay, SqlOf, SqlAt
    <3>2. \A i \in 1 .. Len(answers') :
            /\ status'[answers'[i].call] \in {"sent1", "sent2"}
            /\ bound'[answers'[i].call] \in Entries
            /\ sql'[bound'[answers'[i].call][1]] = sql'[answers'[i].call]
            /\ answers'[i].result \in Results
      BY <1>1, <1>3, <2>1, <2>4, <2>5 DEF UnderWay, SqlOf
    <3>3. /\ \A i, j \in 1 .. Len(outbox') : outbox'[i].call = outbox'[j].call => i = j
          /\ \A i, j \in 1 .. Len(answers') : answers'[i].call = answers'[j].call => i = j
          /\ \A i \in 1 .. Len(outbox'), j \in 1 .. Len(answers') :
               outbox'[i].call # answers'[j].call
      <4>1. \A i, j \in 1 .. Len(answers') : i + 1 = j + 1 => i = j
        BY <1>2, <2>2
      <4> QED
        BY <4>1, <1>1, <2>1, <2>5 DEF UnderWay
    <3> QED
      BY <3>1, <3>2, <3>3 DEF UnderWay, SqlOf, SqlAt
  <2>7. ASSUME NEW x \in Entries, Unmade(x)'
        PROVE  Unmade(x)
    <3>1. x[1] \in Calls
      BY DEF Entries
    <3>2. CASE x[1] = a.call
      BY <3>2, <2>3, <2>4, <2>7 DEF Unmade, Results
    <3>3. CASE x[1] # a.call
      BY <3>1, <3>3, <2>4, <2>7 DEF Unmade
    <3> QED
      BY <3>2, <3>3
  <2>8. \A x \in Entries : x # e => oids'[x] = oids[x]
    BY <1>2, <2>1, <2>3
  <2>9. \A x \in Entries : Unmade(x) => x # e
    BY <1>1, <2>3 DEF Fresh, e
  <2>10. \A l \in Calls : bound'[l] \in {None, bound[l]}
    BY <2>3, <2>4
  <2>11. Fresh'
    BY <1>1, <1>2, <2>1, <2>7, <2>8, <2>9, <2>10 DEF Fresh
  <2> QED
    BY <2>6, <2>11 DEF FlightInv
<1>7. ASSUME outbox # <<>>, NEW r \in Results, NEW v \in Versions \cup {None},
             Ran(Head(outbox), r, v)
      PROVE  FlightInv'
  <2> DEFINE b == outbox[1]
             a == [call |-> b.call, result |-> r, columns |-> v]
  <2>1. /\ Len(outbox') = Len(outbox) - 1
        /\ 1 \in 1 .. Len(outbox) /\ Head(outbox) = b
        /\ \A i \in 1 .. Len(outbox) - 1 :
             outbox'[i] = outbox[i + 1] /\ i + 1 \in 1 .. Len(outbox)
    BY <1>2, <1>7, Dequeued DEF Ran
  <2>2. /\ answers' = Append(answers, a)
        /\ UNCHANGED <<sql, cache, oids, status, bound>>
        /\ b \in Batches
    BY <1>7, <2>1 DEF Ran, clientVars
  <2>3. a \in Reply /\ a.call = b.call /\ a.result = r
    BY <2>2 DEF Reply, Batches, Results, Statuses
  <2> HIDE DEF a
  <2>4. /\ Len(answers') = Len(answers) + 1
        /\ \A i \in 1 .. Len(answers) : answers'[i] = answers[i]
        /\ answers'[Len(answers) + 1] = a
    BY <1>2, <2>2, <2>3, Enqueued
  <2>5. /\ \A i \in 1 .. Len(outbox) - 1 : outbox[i + 1].call # b.call
        /\ \A i \in 1 .. Len(answers) : answers[i].call # b.call
    <3>1. \A i \in 1 .. Len(outbox) - 1 : i + 1 # 1 /\ i + 1 \in 1 .. Len(outbox)
      BY <1>2
    <3> QED
      BY <3>1, <1>1, <2>1 DEF UnderWay
  <2>6. /\ status[b.call] \in {"sent1", "sent2"} /\ bound[b.call] \in Entries
        /\ SqlOf(bound[b.call]) = sql[b.call]
    BY <1>1, <2>1 DEF UnderWay, SqlAt
  <2> HIDE DEF b
  <2>10. \A i \in 1 .. Len(outbox') :
           outbox'[i] = outbox[i + 1] /\ i + 1 \in 1 .. Len(outbox) /\ i \in 1 .. Len(outbox) - 1
    BY <1>2, <2>1
  <2>11. \A i \in 1 .. Len(answers') : i \in 1 .. Len(answers) \/ i = Len(answers) + 1
    BY <1>2, <2>4
  <2>7. /\ \A i \in 1 .. Len(outbox') :
             outbox'[i] = outbox[i + 1] /\ i + 1 \in 1 .. Len(outbox) /\ i \in 1 .. Len(outbox) - 1
        /\ \A i \in 1 .. Len(answers') :
             \/ i \in 1 .. Len(answers) /\ answers'[i] = answers[i]
             \/ i = Len(answers) + 1 /\ answers'[i] = a
    BY <2>4, <2>10, <2>11
  <2>8. UnderWay'
    <3>1. \A i \in 1 .. Len(outbox') :
            /\ status'[outbox'[i].call] \in {"sent1", "sent2"}
            /\ bound'[outbox'[i].call] \in Entries
            /\ sql'[bound'[outbox'[i].call][1]] = sql'[outbox'[i].call]
      BY <1>1, <2>2, <2>7 DEF UnderWay, SqlOf, SqlAt
    <3>2. \A i \in 1 .. Len(answers') :
            /\ status'[answers'[i].call] \in {"sent1", "sent2"}
            /\ bound'[answers'[i].call] \in Entries
            /\ sql'[bound'[answers'[i].call][1]] = sql'[answers'[i].call]
            /\ answers'[i].result \in Results
      BY <1>1, <2>2, <2>3, <2>6, <2>7 DEF UnderWay, SqlOf
    <3>3. \A i, j \in 1 .. Len(outbox') : outbox'[i].call = outbox'[j].call => i = j
      <4>1. \A i, j \in 1 .. Len(outbox') : i + 1 = j + 1 => i = j
        BY <1>2, <2>1
      <4>2. \A i, j \in 1 .. Len(outbox) : outbox[i].call = outbox[j].call => i = j
        BY <1>1 DEF UnderWay
      <4> QED
        BY <4>1, <4>2, <2>10
    <3>5. \A i, j \in 1 .. Len(answers) : answers[i].call = answers[j].call => i = j
      BY <1>1 DEF UnderWay
    <3>6. \A i \in 1 .. Len(outbox), j \in 1 .. Len(answers) : outbox[i].call # answers[j].call
      BY <1>1 DEF UnderWay
    <3>7. \A i, j \in 1 .. Len(answers') : answers'[i].call = answers'[j].call => i = j
      BY <3>5, <2>3, <2>5, <2>7
    <3>8. \A i \in 1 .. Len(outbox'), j \in 1 .. Len(answers') :
            outbox'[i].call # answers'[j].call
      BY <3>6, <2>3, <2>5, <2>7
    <3>4. /\ \A i, j \in 1 .. Len(answers') : answers'[i].call = answers'[j].call => i = j
          /\ \A i \in 1 .. Len(outbox'), j \in 1 .. Len(answers') :
               outbox'[i].call # answers'[j].call
      BY <3>7, <3>8
    <3> QED
      BY <3>1, <3>2, <3>3, <3>4 DEF UnderWay, SqlOf, SqlAt
  <2>9. Fresh'
    BY <1>1, <2>2 DEF Fresh, Unmade
  <2> QED
    BY <2>8, <2>9 DEF FlightInv
<1>8. ASSUME Migrate \/ Deallocate \/ UNCHANGED vars
      PROVE  FlightInv'
  <2>1. UNCHANGED <<sql, cache, oids, status, bound, outbox, answers>>
    BY <1>8 DEF Migrate, Deallocate, vars, clientVars
  <2> QED
    BY <1>1, <2>1 DEF FlightInv, UnderWay, Fresh, Unmade, SqlOf, SqlAt
<1> QED
  BY <1>1, <1>4, <1>5, <1>6, <1>7, <1>8, StepCases

-----------------------------------------------------------------------------
(* Formats *)

\* What is known of a plan stays true of it.
LEMMA FormatsKept ==
  ASSUME TypeInv, FlightInv, FormatsInv, [Next]_vars
  PROVE  FormatsInv'
<1>1. /\ TypeOK /\ UnderWay /\ Fresh
      /\ BatchFormats /\ CacheColumns /\ AnswerColumns /\ HeldEntries /\ FormatsMatchPlan
      /\ \A i \in 1 .. Len(answers) : answers[i].result # "08P01"
  BY DEF TypeInv, FlightInv, FormatsInv
<1>2. /\ sql \in [Calls -> Stmts] /\ outbox \in Seq(Batches) /\ answers \in Seq(Reply)
      /\ status \in [Calls -> Statuses] /\ bound \in [Calls -> Entries \cup {None}]
      /\ oids \in [Entries -> Versions \cup {None}]
      /\ table \in [Stmts -> Versions \cup {None}] /\ schema \in Versions
      /\ Keyed(cache) /\ Range(cache) \subseteq Entries
      /\ Len(outbox) \in Nat /\ Len(answers) \in Nat
      /\ None \notin Entries /\ None \notin Versions
      /\ \A e \in Entries : SqlOf(e) \in Stmts
  BY <1>1, TypeFacts, ConstantFacts, LenProperties DEF TypeOK, Reply
<1>3. /\ \A i \in 1 .. Len(outbox) : outbox[i].call \in Calls /\ SqlAt(i) \in Stmts
      /\ \A i \in 1 .. Len(answers) : answers[i].call \in Calls
  <2>1. /\ \A i \in 1 .. Len(outbox) : outbox[i] \in Batches
        /\ \A i \in 1 .. Len(answers) : answers[i] \in Reply
    BY <1>2, ElementOfSeq
  <2> QED
    BY <1>2, <2>1 DEF Batches, Reply, SqlAt
<1>4. ASSUME NEW k \in Calls, NEW n \in {1, 2}, NEW fresh \in BOOLEAN,
             NEW e \in Entries, NEW b \in Batches, StageStep(k, n, fresh, e, b)
      PROVE  FormatsInv'
  <2> DEFINE s == sql[k]
  <2>1. /\ (n = 1 /\ status[k] = "new") \/ (n = 2 /\ status[k] = "retrying")
        /\ UNCHANGED <<sql, oids, answers, table>>
    BY <1>4 DEF StageStep, serverVars
  <2>2. /\ SqlOf(e) = s /\ b.call = k /\ b.formats = oids[e]
        /\ bound' = [bound EXCEPT ![k] = e]
        /\ outbox' = Append(outbox, b)
        /\ status' = [status EXCEPT ![k] = IF n = 1 THEN "sent1" ELSE "sent2"]
    BY <1>4 DEF StageStep, Staged
  <2>3. \/ e \in Range(cache) /\ ~b.parse /\ Range(cache') = Range(cache)
        \/ /\ e = <<k, n>> /\ b.parse
           /\ Range(cache') = {x \in Range(cache) : SqlOf(x) \notin {s, b.close}} \cup {e}
    BY <1>4 DEF StageStep, Staged
  <2>4. /\ Len(outbox') = Len(outbox) + 1
        /\ \A i \in 1 .. Len(outbox) : outbox'[i] = outbox[i]
        /\ outbox'[Len(outbox) + 1] = b
    BY <1>2, <2>2, Enqueued
  <2>5. /\ \A i \in 1 .. Len(outbox) : outbox[i].call # k
        /\ \A i \in 1 .. Len(answers) : answers[i].call # k
    BY <1>1, <2>1 DEF UnderWay
  <2>6. \A l \in Calls : l # k => bound'[l] = bound[l]
    BY <1>2, <2>2
  <2>7. \A i \in 1 .. Len(outbox') : i \in 1 .. Len(outbox) \/ i = Len(outbox) + 1
    BY <1>2, <2>4
  <2>8. /\ \A i \in 1 .. Len(outbox) : sql'[outbox'[i].call] = SqlAt(i)
        /\ sql'[outbox'[Len(outbox) + 1].call] = s
    BY <2>1, <2>2, <2>4 DEF SqlAt
  <2>9. \/ e \in Range(cache)
        \/ e = <<k, n>> /\ oids[e] = None /\ \A l \in Calls : bound[l] # e
    <3>1. e = <<k, n>> => Unmade(e)
      BY <2>1 DEF Unmade
    <3> QED
      BY <3>1, <1>1, <2>3 DEF Fresh
  \* Nobody else holds the new entry; the others are for other statements.
  <2>10. \A x \in Range(cache') :
           \/ x \in Range(cache) /\ (b.parse => SqlOf(x) # s)
           \/ x = e /\ b.parse /\ oids[e] = None /\ \A l \in Calls : bound[l] # e
    <3>1. CASE e \in Range(cache) /\ ~b.parse /\ Range(cache') = Range(cache)
      BY <3>1
    <3>2. CASE /\ e = <<k, n>> /\ b.parse
               /\ Range(cache') = {x \in Range(cache) : SqlOf(x) \notin {s, b.close}} \cup {e}
      <4>1. Unmade(e)
        BY <2>1, <3>2 DEF Unmade
      <4>2. oids[e] = None /\ \A l \in Calls : bound[l] # e
        BY <4>1, <1>1 DEF Fresh
      <4> QED
        BY <4>2, <3>2
    <3> QED
      BY <2>3, <3>1, <3>2
  <2>11. b.formats # None => ~b.parse /\ Plan(s, b.formats)
    <3>1. CASE e \in Range(cache) /\ ~b.parse
      BY <3>1, <1>1, <2>2 DEF CacheColumns
    <3>2. CASE e = <<k, n>>
      <4>1. Unmade(e)
        BY <2>1, <3>2 DEF Unmade
      <4> QED
        BY <4>1, <1>1, <2>2 DEF Fresh
    <3> QED
      BY <2>3, <3>1, <3>2
  <2>12. ASSUME NEW t, NEW v, Plan(t, v), b.parse => t # s
         PROVE  Plan(t, v)'
    BY <2>12, <2>1, <2>4, <2>7, <2>8 DEF Plan, SqlAt
  <2> HIDE DEF s
  <2>13. BatchFormats'
    <3> SUFFICES ASSUME NEW j \in 1 .. Len(outbox'), outbox'[j].formats # None
                 PROVE  /\ ~outbox'[j].parse
                        /\ \A i \in 1 .. j - 1 : outbox'[i].parse =>
                             sql'[outbox'[i].call] # sql'[outbox'[j].call]
                        /\ table'[sql'[outbox'[j].call]] \in {None, outbox'[j].formats}
      BY DEF BatchFormats, SqlAt
    <3>1. CASE j \in 1 .. Len(outbox)
      <4>1. \A i \in 1 .. j - 1 : i \in 1 .. Len(outbox)
        BY <3>1, <1>2
      <4> QED
        BY <3>1, <4>1, <1>1, <2>1, <2>4, <2>8 DEF BatchFormats
    <3>2. CASE j = Len(outbox) + 1
      <4>1. \A i \in 1 .. j - 1 : i \in 1 .. Len(outbox)
        BY <3>2, <1>2
      <4> QED
        BY <3>2, <4>1, <2>1, <2>4, <2>8, <2>11 DEF Plan
    <3> QED
      BY <3>1, <3>2, <2>7
  <2>14. CacheColumns'
    <3> SUFFICES ASSUME NEW x \in Range(cache'), oids'[x] # None
                 PROVE  Plan(SqlOf(x), oids[x])'
      BY DEF CacheColumns
    <3>1. x \in Range(cache) /\ (b.parse => SqlOf(x) # s)
      BY <2>1, <2>10
    <3>2. Plan(SqlOf(x), oids[x])
      BY <3>1, <1>1, <2>1 DEF CacheColumns
    <3>3. SqlOf(x)' = SqlOf(x) /\ oids'[x] = oids[x]
      BY <2>1 DEF SqlOf
    <3> DEFINE y == SqlOf(x)
               w == oids[x]
    <3>4. Plan(y, w) /\ (b.parse => y # s)
      BY <3>1, <3>2
    <3> HIDE DEF y, w
    <3>5. /\ \A i \in 1 .. Len(outbox') : outbox'[i].parse => sql'[outbox'[i].call] # y
          /\ table'[y] \in {None, w}
      BY <3>4, <2>12 DEF Plan, SqlAt
    <3> QED
      BY <3>3, <3>5 DEF Plan, SqlAt, y, w
  <2>15. AnswerColumns'
    <3> SUFFICES ASSUME NEW i \in 1 .. Len(answers), answers[i].columns # None,
                        bound'[answers[i].call] \in Range(cache')
                 PROVE  Plan(SqlOf(bound[answers[i].call]), answers[i].columns)'
      BY <2>1 DEF AnswerColumns
    <3> DEFINE x == bound[answers[i].call]
    <3>1. bound'[answers[i].call] = x
      BY <1>3, <2>5, <2>6
    <3>2. x \in Range(cache) /\ (b.parse => SqlOf(x) # s)
      BY <1>3, <3>1, <2>10
    <3>3. Plan(SqlOf(x), answers[i].columns)
      BY <3>2, <1>1 DEF AnswerColumns
    <3>4. SqlOf(bound[answers[i].call])' = SqlOf(x) /\ answers'[i] = answers[i]
      BY <2>1, <3>1 DEF SqlOf
    <3> DEFINE y == SqlOf(x)
               w == answers[i].columns
    <3>5. Plan(y, w) /\ (b.parse => y # s)
      BY <3>2, <3>3
    <3> HIDE DEF y, w
    <3>6. /\ \A j \in 1 .. Len(outbox') : outbox'[j].parse => sql'[outbox'[j].call] # y
          /\ table'[y] \in {None, w}
      BY <3>5, <2>12 DEF Plan, SqlAt
    <3> QED
      BY <3>4, <3>6 DEF Plan, SqlAt, y, w
  <2>16. HeldEntries'
    <3> SUFFICES ASSUME NEW i \in 1 .. Len(outbox'), NEW j \in 1 .. Len(outbox'), i < j,
                        bound'[outbox'[i].call] \in Range(cache'), outbox'[j].parse
                 PROVE  sql'[outbox'[j].call] # sql'[outbox'[i].call]
      BY DEF HeldEntries, SqlAt
    <3>1. i \in 1 .. Len(outbox)
      BY <1>2, <2>4
    <3>2. bound'[outbox'[i].call] = bound[outbox[i].call]
      BY <3>1, <1>3, <2>4, <2>5, <2>6
    <3>3. /\ bound[outbox[i].call] \in Range(cache)
          /\ b.parse => SqlOf(bound[outbox[i].call]) # s
      BY <3>1, <3>2, <1>3, <2>10
    <3>4. SqlOf(bound[outbox[i].call]) = SqlAt(i)
      BY <3>1, <1>1 DEF UnderWay
    <3>5. CASE j \in 1 .. Len(outbox)
      BY <3>1, <3>3, <3>5, <1>1, <2>4, <2>8 DEF HeldEntries
    <3>6. CASE j = Len(outbox) + 1
      BY <3>1, <3>3, <3>4, <3>6, <2>4, <2>8
    <3> QED
      BY <3>5, <3>6, <2>7
  <2>17. FormatsMatchPlan'
    BY <1>1, <1>2, <2>2 DEF FormatsMatchPlan
  <2> QED
    BY <1>1, <2>1, <2>13, <2>14, <2>15, <2>16, <2>17 DEF FormatsInv
<1>5. ASSUME NEW k \in Calls, Abandon(k)
      PROVE  FormatsInv'
  <2>1. /\ cache' = Forgotten(sql[k])
        /\ status' = [status EXCEPT ![k] = "abandoned"]
        /\ UNCHANGED <<sql, oids, bound, outbox, answers, table>>
    BY <1>5 DEF Abandon, serverVars
  <2>2. Range(cache') \subseteq Range(cache)
    BY <1>2, <2>1, ForgottenFacts
  <2>3. FormatsMatchPlan'
    BY <1>1, <1>2, <2>1 DEF FormatsMatchPlan
  <2> QED
    BY <1>1, <2>1, <2>2, <2>3
       DEF FormatsInv, BatchFormats, CacheColumns, AnswerColumns, HeldEntries, Plan,
           SqlAt, SqlOf
<1>6. ASSUME Receive
      PROVE  FormatsInv'
  <2> DEFINE a == answers[1]
             e == bound[a.call]
  <2>1. /\ answers # <<>> /\ answers' = Tail(answers)
        /\ a \in Reply
        /\ oids' = IF a.columns # None /\ oids[e] = None
                   THEN [oids EXCEPT ![e] = a.columns] ELSE oids
        /\ bound' = [bound EXCEPT ![a.call] = None]
        /\ status' = [status EXCEPT ![a.call] =
                        IF @ = "sent1" /\ a.result \in Retryable
                        THEN "retrying" ELSE a.result]
        /\ UNCHANGED <<sql, cache, outbox, table, schema, faults, disturbed>>
    BY <1>1, <1>6, ReceiveFacts
  <2>2. /\ Len(answers') = Len(answers) - 1
        /\ 1 \in 1 .. Len(answers)
        /\ \A i \in 1 .. Len(answers) - 1 :
             answers'[i] = answers[i + 1] /\ i + 1 \in 1 .. Len(answers)
    BY <1>2, <2>1, Dequeued
  <2>3. /\ a.call \in Calls /\ e \in Entries
        /\ a.result # "08P01"
        /\ \A i \in 1 .. Len(outbox) : outbox[i].call # a.call
        /\ \A i \in 2 .. Len(answers) : answers[i].call # a.call
    BY <1>1, <1>3, <2>2 DEF UnderWay
  <2>4. a.columns # None /\ e \in Range(cache) => Plan(SqlOf(e), a.columns)
    BY <1>1, <2>2 DEF AnswerColumns
  <2> HIDE DEF a, e
  <2>5. \A l \in Calls : l # a.call => bound'[l] = bound[l]
    BY <1>2, <2>1
  <2>6. \A i \in 1 .. Len(answers') :
          /\ answers'[i] = answers[i + 1] /\ i + 1 \in 1 .. Len(answers)
          /\ answers[i + 1].call # a.call
    BY <1>2, <2>2, <2>3
  <2>7. \A t, v : Plan(t, v)' <=> Plan(t, v)
    BY <2>1 DEF Plan, SqlAt
  <2>8. BatchFormats'
    BY <1>1, <2>1 DEF BatchFormats, SqlAt
  <2>9. CacheColumns'
    <3> SUFFICES ASSUME NEW x \in Range(cache), oids'[x] # None
                 PROVE  Plan(SqlOf(x), oids[x])'
      BY <2>1 DEF CacheColumns
    <3>1. x \in Entries
      BY <1>2
    <3>2. SqlOf(x)' = SqlOf(x)
      BY <2>1 DEF SqlOf
    <3>3. \/ oids'[x] = oids[x]
          \/ x = e /\ oids'[x] = a.columns /\ a.columns # None
      BY <1>2, <2>1, <2>3, <3>1
    <3>4. Plan(SqlOf(x), oids'[x])
      BY <3>3, <1>1, <2>4 DEF CacheColumns
    <3> QED
      BY <3>2, <3>4, <2>1 DEF Plan, SqlAt
  <2>10. AnswerColumns'
    <3> SUFFICES ASSUME NEW i \in 1 .. Len(answers'), answers'[i].columns # None,
                        bound'[answers'[i].call] \in Range(cache)
                 PROVE  Plan(SqlOf(bound[answers[i].call]), answers[i].columns)'
      BY <2>1 DEF AnswerColumns
    <3>1. /\ answers'[i] = answers[i + 1] /\ i + 1 \in 1 .. Len(answers)
          /\ bound'[answers'[i].call] = bound[answers[i + 1].call]
      BY <1>3, <2>5, <2>6
    <3>2. Plan(SqlOf(bound[answers[i + 1].call]), answers[i + 1].columns)
      BY <3>1, <1>1 DEF AnswerColumns
    <3>3. SqlOf(bound[answers[i].call])' = SqlOf(bound[answers[i + 1].call])
      BY <3>1, <2>1 DEF SqlOf
    <3> QED
      BY <3>1, <3>2, <3>3, <2>1 DEF Plan, SqlAt
  <2>11. HeldEntries'
    <3>1. \A i \in 1 .. Len(outbox) : bound'[outbox[i].call] = bound[outbox[i].call]
      BY <1>3, <2>3, <2>5
    <3> QED
      BY <3>1, <1>1, <2>1 DEF HeldEntries, SqlAt
  <2>12. FormatsMatchPlan'
    BY <1>1, <1>2, <2>1, <2>3 DEF FormatsMatchPlan
  <2>13. \A i \in 1 .. Len(answers') : answers'[i].result # "08P01"
    BY <1>1, <2>6
  <2> QED
    BY <2>8, <2>9, <2>10, <2>11, <2>12, <2>13 DEF FormatsInv
<1>7. ASSUME outbox # <<>>, NEW r \in Results, NEW v \in Versions \cup {None},
             Ran(Head(outbox), r, v)
      PROVE  FormatsInv'
  <2> DEFINE b == outbox[1]
             s == sql[b.call]
             e == bound[b.call]
             a == [call |-> b.call, result |-> r, columns |-> v]
  <2>1. /\ Len(outbox') = Len(outbox) - 1
        /\ 1 \in 1 .. Len(outbox) /\ Head(outbox) = b
        /\ \A i \in 1 .. Len(outbox) - 1 :
             outbox'[i] = outbox[i + 1] /\ i + 1 \in 1 .. Len(outbox)
    BY <1>2, <1>7, Dequeued DEF Ran
  <2>2. /\ answers' = Append(answers, a)
        /\ UNCHANGED <<sql, cache, oids, status, bound>>
        /\ b \in Batches
    BY <1>7, <2>1 DEF Ran, clientVars
  <2>3. /\ \A t \in Stmts :
             table'[t] # None => table'[t] = table[t] \/ (t = s /\ b.parse)
        /\ v # None => v = schema /\ table'[s] = schema
        /\ r = "08P01" => b.formats \notin {None, schema} /\ table'[s] = schema
    <3>1. Ran(b, r, v)
      BY <1>7, <2>1
    <3> HIDE DEF b, a, e
    <3>2. \A t \in Stmts :
            table'[t] # None => \/ table'[t] = table[t] /\ t # b.close
                                \/ table'[t] = schema /\ t = s /\ b.parse
      BY <3>1 DEF Ran
    <3>3. /\ v # None => v = schema /\ table'[s] = schema
          /\ r = "08P01" => b.formats \notin {None, schema} /\ table'[s] = schema
      BY <3>1 DEF Ran
    <3> HIDE DEF s
    <3> QED
      BY <3>2, <3>3
  <2>4. a \in Reply /\ a.call = b.call /\ a.result = r /\ a.columns = v
    BY <2>2 DEF Reply, Batches, Results, Statuses
  <2>5. SqlOf(e) = s /\ s \in Stmts /\ s = SqlAt(1)
    BY <1>1, <1>3, <2>1 DEF UnderWay, SqlAt
  <2> HIDE DEF a
  <2>6. /\ Len(answers') = Len(answers) + 1
        /\ \A i \in 1 .. Len(answers) : answers'[i] = answers[i]
        /\ answers'[Len(answers) + 1] = a
    BY <1>2, <2>2, <2>4, Enqueued
  <2>7. \A i \in 1 .. Len(outbox') :
          /\ outbox'[i] = outbox[i + 1] /\ i + 1 \in 1 .. Len(outbox)
          /\ sql'[outbox'[i].call] = SqlAt(i + 1)
    BY <1>2, <2>1, <2>2 DEF SqlAt
  <2>8. \A i \in 1 .. Len(answers') : i \in 1 .. Len(answers) \/ i = Len(answers) + 1
    BY <1>2, <2>6
  \* Whoever knows a plan knows that nobody is to parse the statement again.
  <2>9. ASSUME NEW t \in Stmts, NEW w, Plan(t, w)
        PROVE  Plan(t, w)'
    <3>1. b.parse => s # t
      BY <2>1, <2>5, <2>9 DEF Plan
    <3>2. table'[t] \in {None, w}
      BY <3>1, <2>3, <2>9 DEF Plan
    <3>3. \A i \in 1 .. Len(outbox') : outbox'[i].parse => sql'[outbox'[i].call] # t
      BY <2>7, <2>9 DEF Plan
    <3> QED
      BY <3>2, <3>3 DEF Plan, SqlAt
  <2>10. BatchFormats'
    <3> SUFFICES ASSUME NEW j \in 1 .. Len(outbox'), outbox'[j].formats # None
                 PROVE  /\ ~outbox'[j].parse
                        /\ \A i \in 1 .. j - 1 : outbox'[i].parse =>
                             sql'[outbox'[i].call] # sql'[outbox'[j].call]
                        /\ table'[sql'[outbox'[j].call]] \in {None, outbox'[j].formats}
      BY DEF BatchFormats, SqlAt
    <3>1. /\ outbox'[j] = outbox[j + 1] /\ j + 1 \in 1 .. Len(outbox)
          /\ sql'[outbox'[j].call] = SqlAt(j + 1)
      BY <2>7
    <3>2. /\ ~outbox[j + 1].parse
          /\ \A i \in 1 .. (j + 1) - 1 : outbox[i].parse => SqlAt(i) # SqlAt(j + 1)
          /\ table[SqlAt(j + 1)] \in {None, outbox[j + 1].formats}
      BY <3>1, <1>1 DEF BatchFormats
    <3>3. 1 \in 1 .. (j + 1) - 1
      BY <1>2, <2>1
    <3>4. table'[SqlAt(j + 1)] \in {None, table[SqlAt(j + 1)]}
      BY <3>1, <3>2, <3>3, <1>3, <2>3, <2>5
    <3>5. \A i \in 1 .. j - 1 : i \in 1 .. Len(outbox') /\ i + 1 \in 1 .. (j + 1) - 1
      BY <1>2, <2>1
    <3>6. \A i \in 1 .. j - 1 : outbox'[i].parse => sql'[outbox'[i].call] # SqlAt(j + 1)
      BY <3>2, <3>5, <2>7
    <3> QED
      BY <3>1, <3>2, <3>4, <3>6
  <2>11. CacheColumns'
    <3> SUFFICES ASSUME NEW x \in Range(cache), oids[x] # None
                 PROVE  Plan(SqlOf(x), oids[x])'
      BY <2>2 DEF CacheColumns
    <3>1. Plan(SqlOf(x), oids[x]) /\ SqlOf(x) \in Stmts
      BY <1>1, <1>2 DEF CacheColumns
    <3>2. SqlOf(x)' = SqlOf(x) /\ oids'[x] = oids[x]
      BY <2>2 DEF SqlOf
    <3>3. /\ \A i \in 1 .. Len(outbox') : outbox'[i].parse => sql'[outbox'[i].call] # SqlOf(x)
          /\ table'[SqlOf(x)] \in {None, oids[x]}
      BY <3>1, <2>9 DEF Plan, SqlAt
    <3> QED
      BY <3>2, <3>3 DEF Plan, SqlAt
  <2>12. AnswerColumns'
    <3> SUFFICES ASSUME NEW i \in 1 .. Len(answers'), answers'[i].columns # None,
                        bound[answers'[i].call] \in Range(cache)
                 PROVE  Plan(SqlOf(bound[answers[i].call]), answers[i].columns)'
      BY <2>2 DEF AnswerColumns
    <3> DEFINE x == bound[answers'[i].call]
               w == answers'[i].columns
    <3>1. x \in Entries /\ SqlOf(x) \in Stmts
      BY <1>2
    <3>2. /\ \A j \in 1 .. Len(outbox') : outbox'[j].parse => sql'[outbox'[j].call] # SqlOf(x)
          /\ table'[SqlOf(x)] \in {None, w}
      <4>1. CASE i \in 1 .. Len(answers)
        <5>1. Plan(SqlOf(x), w)
          BY <4>1, <1>1, <2>6 DEF AnswerColumns
        <5> HIDE DEF x, w
        <5> QED
          BY <5>1, <3>1, <2>9 DEF Plan, SqlAt
      <4>2. CASE i = Len(answers) + 1
        <5>1. x = e /\ w = v
          BY <4>2, <2>4, <2>6
        <5>2. table'[s] = v
          BY <5>1, <2>3
        <5>3. ASSUME NEW j \in 1 .. Len(outbox'), outbox'[j].parse
              PROVE  sql'[outbox'[j].call] # s
          <6>1. /\ outbox[j + 1].parse /\ j + 1 \in 1 .. Len(outbox) /\ 1 < j + 1
                /\ sql'[outbox'[j].call] = SqlAt(j + 1)
            BY <5>3, <2>7
          <6> QED
            BY <6>1, <5>1, <1>1, <2>1, <2>5 DEF HeldEntries
        <5> QED
          BY <5>1, <5>2, <5>3, <2>5
      <4> QED
        BY <4>1, <4>2, <2>8
    <3>3. bound'[answers'[i].call] = x /\ SqlOf(bound[answers[i].call])' = SqlOf(x)
      BY <2>2 DEF SqlOf
    <3> QED
      BY <3>2, <3>3 DEF Plan, SqlAt
  <2>13. HeldEntries'
    <3> SUFFICES ASSUME NEW i \in 1 .. Len(outbox'), NEW j \in 1 .. Len(outbox'), i < j,
                        bound[outbox'[i].call] \in Range(cache), outbox'[j].parse
                 PROVE  sql'[outbox'[j].call] # sql'[outbox'[i].call]
      BY <2>2 DEF HeldEntries, SqlAt
    <3>1. i + 1 < j + 1
      OBVIOUS
    <3> QED
      BY <3>1, <1>1, <2>7 DEF HeldEntries
  <2>14. r # "08P01"
    <3> SUFFICES ASSUME r = "08P01" PROVE FALSE
      OBVIOUS
    <3>1. b.formats \notin {None, schema} /\ table'[s] = schema /\ schema # None
      BY <1>2, <2>3
    <3>2. ~b.parse /\ table[s] \in {None, b.formats}
      BY <3>1, <1>1, <2>1, <2>5 DEF BatchFormats
    <3> QED
      BY <3>1, <3>2, <2>3, <2>5
  <2>15. \A i \in 1 .. Len(answers') : answers'[i].result # "08P01"
    BY <1>1, <2>4, <2>6, <2>8, <2>14
  <2>16. FormatsMatchPlan'
    BY <1>1, <2>2 DEF FormatsMatchPlan
  <2> QED
    BY <2>10, <2>11, <2>12, <2>13, <2>15, <2>16 DEF FormatsInv
<1>8. ASSUME Migrate \/ UNCHANGED vars
      PROVE  FormatsInv'
  <2>1. UNCHANGED <<sql, cache, oids, status, bound, outbox, answers, table>>
    BY <1>8 DEF Migrate, vars, clientVars, serverVars
  <2> QED
    BY <1>1, <2>1
       DEF FormatsInv, BatchFormats, CacheColumns, AnswerColumns, HeldEntries, Plan,
           SqlAt, SqlOf, FormatsMatchPlan
<1>9. ASSUME Deallocate
      PROVE  FormatsInv'
  <2>1. /\ UNCHANGED <<sql, cache, oids, status, bound, outbox, answers>>
        /\ table' = [t \in Stmts |-> None]
    BY <1>9 DEF Deallocate, clientVars
  <2>2. \A t \in Stmts : table'[t] = None
    BY <2>1
  <2>3. BatchFormats' /\ HeldEntries' /\ FormatsMatchPlan'
    BY <1>1, <1>3, <2>1, <2>2 DEF BatchFormats, HeldEntries, FormatsMatchPlan, SqlAt
  <2>4. CacheColumns'
    BY <1>1, <1>2, <2>1, <2>2 DEF CacheColumns, Plan, SqlAt, SqlOf
  <2>5. AnswerColumns'
    BY <1>1, <1>2, <2>1, <2>2 DEF AnswerColumns, Plan, SqlAt, SqlOf
  <2> QED
    BY <1>1, <2>1, <2>3, <2>4, <2>5 DEF FormatsInv
<1> QED
  BY <1>1, <1>4, <1>5, <1>6, <1>7, <1>8, <1>9, StepCases

-----------------------------------------------------------------------------
(* What will be left at the server *)

\* A new batch changes nothing for those before it.
LEMMA LeftOfPrefix ==
  ASSUME NEW O \in Seq(Batches), NEW b \in Batches, NEW T, NEW q, NEW s,
         NEW n \in 0 .. Len(O)
  PROVE  Left(Append(O, b), T, q, n, s) <=> Left(O, T, q, n, s)
<1> DEFINE P == Append(O, b)
<1>1. Len(O) \in Nat /\ \A i \in 1 .. Len(O) : P[i] = O[i]
  BY Enqueued
<1> HIDE DEF P
<1>2. \A i \in 1 .. n : P[i] = O[i] /\ \A j \in i + 1 .. n : P[j] = O[j]
  BY <1>1
<1>3. \A j \in 1 .. n : P[j] = O[j]
  BY <1>1
<1> QED
  BY <1>2, <1>3 DEF Left, P

\* A new batch leaves what it parses, and takes away what it closes.
LEMMA LeftOfAppend ==
  ASSUME NEW O \in Seq(Batches), NEW b \in Batches, NEW T, NEW q, NEW s
  PROVE  Left(Append(O, b), T, q, Len(O) + 1, s) <=>
           \/ b.parse /\ q[b.call] = s
           \/ Left(O, T, q, Len(O), s) /\ b.close # s
<1> DEFINE P == Append(O, b)
           n == Len(O)
<1>1. n \in Nat /\ (\A i \in 1 .. n : P[i] = O[i]) /\ P[n + 1] = b
  BY Enqueued
<1> HIDE DEF P, n
<1>2. /\ \A i \in 1 .. n + 1 : i \in 1 .. n \/ i = n + 1
      /\ \A i \in 1 .. n : i \in 1 .. n + 1
      /\ n + 1 \in 1 .. n + 1
      /\ \A j \in n + 1 + 1 .. n + 1 : FALSE
      /\ \A i \in 1 .. n : \A j \in i + 1 .. n + 1 : j \in i + 1 .. n \/ j = n + 1
      /\ \A i \in 1 .. n : \A j \in i + 1 .. n : j \in i + 1 .. n + 1 /\ j \in 1 .. n
      /\ \A i \in 1 .. n : n + 1 \in i + 1 .. n + 1
  BY <1>1
<1>3. (\E i \in 1 .. n + 1 : /\ P[i].parse /\ q[P[i].call] = s
                             /\ \A j \in i + 1 .. n + 1 : P[j].close # s)
      <=> \/ b.parse /\ q[b.call] = s
          \/ /\ b.close # s
             /\ \E i \in 1 .. n : /\ O[i].parse /\ q[O[i].call] = s
                                  /\ \A j \in i + 1 .. n : O[j].close # s
  <2>1. ASSUME NEW i \in 1 .. n
        PROVE  (\A j \in i + 1 .. n + 1 : P[j].close # s)
               <=> b.close # s /\ \A j \in i + 1 .. n : O[j].close # s
    BY <1>1, <1>2
  <2> QED
    BY <2>1, <1>1, <1>2
<1>4. (\A j \in 1 .. n + 1 : P[j].close # s)
      <=> b.close # s /\ \A j \in 1 .. n : O[j].close # s
  BY <1>1, <1>2
<1> QED
  BY <1>3, <1>4 DEF Left, P, n

\* Once the first batch has run, what it leaves behind counts as in the table.
LEMMA LeftOfTail ==
  ASSUME NEW O \in Seq(Batches), O # <<>>, NEW T, NEW U, NEW q, NEW s,
         NEW n \in 0 .. Len(O) - 1
  PROVE  LET kept == (T[s] # None /\ O[1].close # s) \/ (O[1].parse /\ q[O[1].call] = s)
         IN  /\ (U[s] # None => kept) =>
                  (Left(Tail(O), U, q, n, s) => Left(O, T, q, n + 1, s))
             /\ (kept => U[s] # None) =>
                  (Left(O, T, q, n + 1, s) => Left(Tail(O), U, q, n, s))
<1> DEFINE P == Tail(O)
<1>1. Len(O) \in Nat /\ \A i \in 1 .. Len(O) - 1 : P[i] = O[i + 1]
  BY Dequeued
<1> HIDE DEF P
<1>2. \A i \in 1 .. n : P[i] = O[i + 1] /\ i + 1 \in 1 .. n + 1
  BY <1>1
<1>3. \A i \in 1 .. n + 1 : i = 1 \/ (i - 1 \in 1 .. n /\ P[i - 1] = O[i])
  <2>1. \A i \in 1 .. n + 1 : i = 1 \/ (i - 1 \in 1 .. n /\ i - 1 + 1 = i)
    OBVIOUS
  <2> QED
    BY <1>2, <2>1
<1>4. (\A j \in 2 .. n + 1 : O[j].close # s) <=> \A j \in 1 .. n : P[j].close # s
  <2>1. \A j \in 2 .. n + 1 : j \in 1 .. n + 1 /\ j # 1
    OBVIOUS
  <2>2. \A j \in 1 .. n : j + 1 \in 2 .. n + 1
    OBVIOUS
  <2> QED
    BY <1>2, <1>3, <2>1, <2>2
<1>5. (\A j \in 1 .. n + 1 : O[j].close # s)
      <=> O[1].close # s /\ \A j \in 1 .. n : P[j].close # s
  <2>1. \A j \in 1 .. n + 1 : j = 1 \/ j \in 2 .. n + 1
    OBVIOUS
  <2>2. 1 \in 1 .. n + 1 /\ \A j \in 2 .. n + 1 : j \in 1 .. n + 1
    OBVIOUS
  <2> QED
    BY <2>1, <2>2, <1>4
<1>6. ASSUME NEW i \in 1 .. n
      PROVE  (\A j \in i + 1 + 1 .. n + 1 : O[j].close # s)
             <=> \A j \in i + 1 .. n : P[j].close # s
  <2>1. \A j \in i + 1 + 1 .. n + 1 : j - 1 \in i + 1 .. n /\ j \in 1 .. n + 1 /\ j # 1
    OBVIOUS
  <2>2. \A j \in i + 1 .. n : j \in 1 .. n /\ j + 1 \in i + 1 + 1 .. n + 1
    OBVIOUS
  <2> QED
    BY <1>2, <1>3, <2>1, <2>2
<1>7. (\E i \in 1 .. n + 1 : /\ O[i].parse /\ q[O[i].call] = s
                             /\ \A j \in i + 1 .. n + 1 : O[j].close # s)
      <=> \/ /\ O[1].parse /\ q[O[1].call] = s
             /\ \A j \in 1 .. n : P[j].close # s
          \/ \E i \in 1 .. n : /\ P[i].parse /\ q[P[i].call] = s
                               /\ \A j \in i + 1 .. n : P[j].close # s
  <2>1. ASSUME NEW i \in 1 .. n + 1, O[i].parse /\ q[O[i].call] = s,
               \A j \in i + 1 .. n + 1 : O[j].close # s
        PROVE  \/ /\ O[1].parse /\ q[O[1].call] = s
                  /\ \A j \in 1 .. n : P[j].close # s
               \/ \E k \in 1 .. n : /\ P[k].parse /\ q[P[k].call] = s
                                    /\ \A j \in k + 1 .. n : P[j].close # s
    <3>1. CASE i = 1
      BY <3>1, <2>1, <1>4
    <3>2. CASE i # 1
      <4>1. i - 1 \in 1 .. n /\ P[i - 1] = O[i] /\ i - 1 + 1 + 1 = i + 1
        BY <3>2, <1>3
      <4>2. \A j \in (i - 1) + 1 .. n : P[j].close # s
        BY <4>1, <2>1, <1>6
      <4> QED
        BY <4>1, <4>2, <2>1
    <3> QED
      BY <3>1, <3>2
  <2>2. ASSUME O[1].parse /\ q[O[1].call] = s, \A j \in 1 .. n : P[j].close # s
        PROVE  \E i \in 1 .. n + 1 : /\ O[i].parse /\ q[O[i].call] = s
                                     /\ \A j \in i + 1 .. n + 1 : O[j].close # s
    <3>1. 1 \in 1 .. n + 1 /\ \A j \in 1 + 1 .. n + 1 : O[j].close # s
      BY <2>2, <1>4
    <3> QED
      BY <3>1, <2>2
  <2>3. ASSUME NEW i \in 1 .. n, P[i].parse /\ q[P[i].call] = s,
               \A j \in i + 1 .. n : P[j].close # s
        PROVE  \E k \in 1 .. n + 1 : /\ O[k].parse /\ q[O[k].call] = s
                                     /\ \A j \in k + 1 .. n + 1 : O[j].close # s
    <3>1. /\ i + 1 \in 1 .. n + 1 /\ P[i] = O[i + 1]
          /\ \A j \in i + 1 + 1 .. n + 1 : O[j].close # s
      BY <2>3, <1>2, <1>6
    <3> QED
      BY <3>1, <2>3
  <2> QED
    BY <2>1, <2>2, <2>3
<1> DEFINE Later == \E i \in 1 .. n : /\ P[i].parse /\ q[P[i].call] = s
                                      /\ \A j \in i + 1 .. n : P[j].close # s
           Stays == \A j \in 1 .. n : P[j].close # s
<1>8. Left(P, U, q, n, s) <=> Later \/ (U[s] # None /\ Stays)
  BY DEF Left
<1>9. Left(O, T, q, n + 1, s) <=>
        Later \/ (Stays /\ (\/ T[s] # None /\ O[1].close # s
                            \/ O[1].parse /\ q[O[1].call] = s))
  <2>1. Left(O, T, q, n + 1, s) <=>
          \/ (\E i \in 1 .. n + 1 : /\ O[i].parse /\ q[O[i].call] = s
                                    /\ \A j \in i + 1 .. n + 1 : O[j].close # s)
          \/ T[s] # None /\ \A j \in 1 .. n + 1 : O[j].close # s
    BY DEF Left
  <2> HIDE DEF Later, Stays
  <2> QED
    BY <2>1, <1>5, <1>7 DEF Later, Stays
<1> HIDE DEF Later, Stays
<1> QED
  BY <1>8, <1>9 DEF P

\* Before any batch has run, the table says what is there.
LEMMA LeftOfNothing ==
  ASSUME NEW O, NEW T, NEW q, NEW s
  PROVE  Left(O, T, q, 0, s) <=> T[s] # None
BY DEF Left

\* A batch that goes out changes what is cached as it changes what is left.
LEMMA StagedCache ==
  ASSUME TypeOK, NEW k \in Calls, NEW n \in {1, 2}, NEW fresh \in BOOLEAN,
         NEW e \in Entries, NEW b \in Batches, StageStep(k, n, fresh, e, b)
  PROVE  /\ \A s \in Stmts :
              IsCached(s)' <=> \/ IsCached(s) /\ b.close # s
                               \/ b.parse /\ sql[k] = s
         /\ b.parse <=> fresh \/ ~IsCached(sql[k])
<1>1. sql' = sql /\ Staged(k, n, fresh, e, b) /\ None \notin Stmts /\ b.parse \in BOOLEAN
  BY ConstantFacts DEF StageStep, Batches
<1>2. SqlOf(e) = sql[k] /\ b.close # sql[k] /\ sql[k] \in Stmts
  BY <1>1 DEF Staged, TypeOK
<1>3. \A s : IsCached(s)' <=> \E x \in Range(cache') : SqlOf(x) = s
  BY <1>1 DEF IsCached, SqlOf
<1>4. CASE /\ ~fresh /\ e \in Range(cache)
           /\ ~b.parse /\ b.close = None
           /\ Range(cache') = Range(cache)
  BY <1>1, <1>2, <1>3, <1>4 DEF IsCached
<1>5. CASE /\ fresh \/ ~IsCached(sql[k])
           /\ b.parse
           /\ Range(cache') = {x \in Range(cache) : SqlOf(x) \notin {sql[k], b.close}} \cup {e}
  <2>1. ASSUME NEW s \in Stmts, IsCached(s)'
        PROVE  \/ IsCached(s) /\ b.close # s
               \/ sql[k] = s
    <3>1. PICK x \in Range(cache') : SqlOf(x) = s
      BY <1>3, <2>1
    <3> QED
      BY <3>1, <1>2, <1>5 DEF IsCached
  <2>2. ASSUME NEW s \in Stmts, IsCached(s), b.close # s, sql[k] # s
        PROVE  IsCached(s)'
    <3>1. PICK x \in Range(cache) : SqlOf(x) = s
      BY <2>2 DEF IsCached
    <3>2. x \in Range(cache')
      BY <3>1, <2>2, <1>5
    <3> QED
      BY <3>1, <3>2, <1>3
  <2>3. \A s \in Stmts : sql[k] = s => IsCached(s)'
    BY <1>2, <1>3, <1>5
  <2> QED
    BY <2>1, <2>2, <2>3, <1>5
<1> QED
  BY <1>1, <1>4, <1>5 DEF Staged

\* The same, for an attempt.
LEMMA LeftAfterStage ==
  ASSUME TypeOK, NEW k \in Calls, NEW n \in {1, 2}, NEW fresh \in BOOLEAN,
         NEW e \in Entries, NEW b \in Batches, StageStep(k, n, fresh, e, b)
  PROVE  /\ sql' = sql /\ table' = table /\ b.call = k /\ b.close # sql[k]
         /\ Len(outbox) \in Nat /\ Len(outbox') = Len(outbox) + 1
         /\ \A i \in 1 .. Len(outbox) : outbox'[i] = outbox[i]
         /\ outbox'[Len(outbox) + 1] = b
         /\ \A i \in 0 .. Len(outbox) : \A s :
              Left(outbox', table', sql', i, s) <=> Left(outbox, table, sql, i, s)
         /\ \A s : Left(outbox', table', sql', Len(outbox'), s) <=>
                     \/ b.parse /\ sql[k] = s
                     \/ Left(outbox, table, sql, Len(outbox), s) /\ b.close # s
<1>1. /\ sql' = sql /\ table' = table /\ outbox \in Seq(Batches)
      /\ b.call = k /\ b.close # sql[k] /\ outbox' = Append(outbox, b)
  BY DEF StageStep, Staged, serverVars, TypeOK
<1>2. /\ Len(outbox) \in Nat /\ Len(outbox') = Len(outbox) + 1
      /\ \A i \in 1 .. Len(outbox) : outbox'[i] = outbox[i]
      /\ outbox'[Len(outbox) + 1] = b
  BY <1>1, Enqueued
<1>3. \A i \in 0 .. Len(outbox) : \A s :
        Left(outbox', table', sql', i, s) <=> Left(outbox, table, sql, i, s)
  BY <1>1, LeftOfPrefix
<1>4. \A s : Left(outbox', table', sql', Len(outbox) + 1, s) <=>
               \/ b.parse /\ sql[k] = s
               \/ Left(outbox, table, sql, Len(outbox), s) /\ b.close # s
  BY <1>1, LeftOfAppend
<1> QED
  BY <1>1, <1>2, <1>3, <1>4

\* What will be left at the server is cached, or was lost by an abandoned retry.
LEMMA AccountsKept ==
  ASSUME TypeInv, FlightInv, Accounted, [Next]_vars
  PROVE  Accounted'
<1>1. TypeOK /\ UnderWay
  BY DEF TypeInv, FlightInv
<1>2. /\ status \in [Calls -> Statuses] /\ outbox \in Seq(Batches) /\ Len(outbox) \in Nat
      /\ Keyed(cache) /\ answers \in Seq(Reply)
  BY <1>1, TypeFacts, LenProperties DEF TypeOK, Reply
<1> DEFINE Lost(s) == \E k \in Calls : status[k] = "abandoned" /\ sql[k] = s
<1>3. ASSUME NEW k \in Calls, NEW n \in {1, 2}, NEW fresh \in BOOLEAN,
             NEW e \in Entries, NEW b \in Batches, StageStep(k, n, fresh, e, b)
      PROVE  Accounted'
  <2>1. /\ status[k] # "abandoned"
        /\ status' = [status EXCEPT ![k] = IF n = 1 THEN "sent1" ELSE "sent2"]
        /\ sql' = sql
    BY <1>3 DEF StageStep, Staged
  <2>2. \A s \in Stmts : Lost(s) => Lost(s)'
    BY <1>2, <2>1
  <2> HIDE DEF Lost
  <2>3. \A s : Left(outbox', table', sql', Len(outbox'), s) <=>
                 \/ b.parse /\ sql[k] = s
                 \/ Left(outbox, table, sql, Len(outbox), s) /\ b.close # s
    BY <1>1, <1>3, LeftAfterStage
  <2>4. \A s \in Stmts : IsCached(s)' <=> \/ IsCached(s) /\ b.close # s
                                          \/ b.parse /\ sql[k] = s
    BY <1>1, <1>3, StagedCache
  <2>5. \A s \in Stmts : Left(outbox, table, sql, Len(outbox), s) => IsCached(s) \/ Lost(s)
    BY DEF Accounted, Lost
  <2>6. \A s \in Stmts :
          Left(outbox', table', sql', Len(outbox'), s) => IsCached(s)' \/ Lost(s)'
    BY <2>2, <2>3, <2>4, <2>5
  <2> QED
    BY <2>6 DEF Accounted, Lost
<1>4. ASSUME NEW k \in Calls, Abandon(k)
      PROVE  Accounted'
  <2>1. /\ cache' = Forgotten(sql[k])
        /\ status' = [status EXCEPT ![k] = "abandoned"]
        /\ UNCHANGED <<sql, oids, bound, outbox, answers, table>>
    BY <1>4 DEF Abandon, serverVars
  <2>2. Range(cache') = {x \in Range(cache) : SqlOf(x) # sql[k]}
    BY <1>2, <2>1, ForgottenFacts
  <2>3. \A s \in Stmts : IsCached(s) => IsCached(s)' \/ s = sql[k]
    BY <2>1, <2>2 DEF IsCached, SqlOf
  <2>4. /\ \A s \in Stmts : Lost(s) => Lost(s)'
        /\ Lost(sql[k])'
    BY <1>2, <2>1
  <2> HIDE DEF Lost
  <2>5. \A s \in Stmts : Left(outbox, table, sql, Len(outbox), s) => IsCached(s) \/ Lost(s)
    BY DEF Accounted, Lost
  <2>6. \A s \in Stmts :
          Left(outbox', table', sql', Len(outbox'), s) => IsCached(s)' \/ Lost(s)'
    BY <2>1, <2>3, <2>4, <2>5
  <2> QED
    BY <2>6 DEF Accounted, Lost
<1>5. ASSUME Receive
      PROVE  Accounted'
  <2>1. /\ answers # <<>>
        /\ status' = [status EXCEPT ![answers[1].call] =
                        IF @ = "sent1" /\ answers[1].result \in Retryable
                        THEN "retrying" ELSE answers[1].result]
        /\ UNCHANGED <<sql, cache, outbox, table>>
    BY <1>1, <1>5, ReceiveFacts
  <2>2. 1 \in 1 .. Len(answers)
    BY <1>2, <2>1, Dequeued
  <2>3. status[answers[1].call] # "abandoned"
    BY <1>1, <2>2 DEF UnderWay
  <2>4. \A s \in Stmts : Lost(s) => Lost(s)'
    BY <1>2, <2>1, <2>3
  <2> HIDE DEF Lost
  <2>5. \A s \in Stmts : Left(outbox, table, sql, Len(outbox), s) => IsCached(s) \/ Lost(s)
    BY DEF Accounted, Lost
  <2>6. \A s \in Stmts :
          Left(outbox', table', sql', Len(outbox'), s) => IsCached(s)' \/ Lost(s)'
    BY <2>1, <2>4, <2>5 DEF IsCached, SqlOf
  <2> QED
    BY <2>6 DEF Accounted, Lost
<1>6. ASSUME outbox # <<>>, NEW r \in Results, NEW v \in Versions \cup {None},
             Ran(Head(outbox), r, v)
      PROVE  Accounted'
  <2> DEFINE b == outbox[1]
  <2>1. /\ Head(outbox) = b /\ Len(Tail(outbox)) = Len(outbox) - 1
        /\ Len(outbox) - 1 \in 0 .. Len(outbox) - 1 /\ Len(outbox) - 1 + 1 = Len(outbox)
    BY <1>2, <1>6, Dequeued
  <2>2. /\ outbox' = Tail(outbox)
        /\ UNCHANGED <<sql, cache, status>>
    BY <1>6 DEF Ran, clientVars
  <2>3. \A t \in Stmts :
          table'[t] # None => \/ table[t] # None /\ b.close # t
                              \/ b.parse /\ sql[b.call] = t
    BY <1>6, <2>1 DEF Ran
  <2>4. ASSUME NEW s \in Stmts, Left(outbox', table', sql', Len(outbox'), s)
        PROVE  IsCached(s)' \/ Lost(s)'
    <3> DEFINE n == Len(outbox) - 1
               U == table'
    <3>1. Left(Tail(outbox), U, sql, n, s) /\ n \in 0 .. Len(outbox) - 1 /\ n + 1 = Len(outbox)
      BY <2>1, <2>2, <2>4
    <3>2. U[s] # None => \/ table[s] # None /\ outbox[1].close # s
                         \/ outbox[1].parse /\ sql[outbox[1].call] = s
      BY <2>3
    <3> HIDE DEF n, U, b, Lost
    <3>3. Left(outbox, table, sql, n + 1, s)
      BY <1>2, <1>6, <3>1, <3>2, LeftOfTail
    <3>4. IsCached(s) \/ Lost(s)
      BY <3>1, <3>3 DEF Accounted, Lost
    <3> QED
      BY <3>4, <2>2 DEF IsCached, SqlOf, Lost
  <2> QED
    BY <2>4 DEF Accounted
<1>7. ASSUME Migrate \/ UNCHANGED vars
      PROVE  Accounted'
  <2>1. UNCHANGED <<sql, cache, status, outbox, table>>
    BY <1>7 DEF Migrate, vars, clientVars, serverVars
  <2> QED
    BY <2>1 DEF Accounted, IsCached, SqlOf
<1>8. ASSUME Deallocate
      PROVE  Accounted'
  <2>1. /\ UNCHANGED <<sql, cache, status, outbox>>
        /\ table' = [t \in Stmts |-> None]
    BY <1>8 DEF Deallocate, clientVars
  <2>2. \A s \in Stmts : Left(outbox', table', sql', Len(outbox'), s) =>
                           Left(outbox, table, sql, Len(outbox), s)
    BY <2>1 DEF Left
  <2> QED
    BY <2>1, <2>2 DEF Accounted, IsCached, SqlOf
<1> QED
  BY <1>1, <1>3, <1>4, <1>5, <1>6, <1>7, <1>8, StepCases

-----------------------------------------------------------------------------
(* Undisturbed statements *)

\* When the server runs the first batch, what will be left stays the same, of
\* every statement that the batch parses successfully or does not parse.
LEMMA LeftAfterRun ==
  ASSUME TypeOK, outbox # <<>>, NEW r \in Results, NEW v \in Versions \cup {None},
         Ran(Head(outbox), r, v), NEW i \in 0 .. Len(outbox) - 1, NEW t \in Stmts
  PROVE  /\ Left(outbox', table', sql', i, t) => Left(outbox, table, sql, i + 1, t)
         /\ t # sql[outbox[1].call] \/ ~outbox[1].parse \/ table'[t] # None =>
              (Left(outbox, table, sql, i + 1, t) => Left(outbox', table', sql', i, t))
<1> DEFINE U == table'
           b == outbox[1]
<1>1. outbox \in Seq(Batches) /\ Head(outbox) = b
  BY Dequeued DEF TypeOK
<1>2. /\ outbox' = Tail(outbox) /\ sql' = sql
      /\ None \notin Versions
      /\ table \in [Stmts -> Versions \cup {None}]
  BY <1>1, ConstantFacts DEF Ran, clientVars, TypeOK
<1>3. /\ U[t] # None => \/ table[t] # None /\ t # b.close
                        \/ t = sql[b.call] /\ b.parse
      /\ t # b.close /\ table[t] # None => U[t] = table[t]
  BY <1>1 DEF Ran
<1> HIDE DEF U, b
<1>4. Left(Tail(outbox), U, sql, i, t) => Left(outbox, table, sql, i + 1, t)
  BY <1>1, <1>3, LeftOfTail DEF b
<1>5. t # sql[b.call] \/ ~b.parse \/ U[t] # None =>
        (Left(outbox, table, sql, i + 1, t) => Left(Tail(outbox), U, sql, i, t))
  <2>1. ASSUME t # sql[b.call] \/ ~b.parse \/ U[t] # None
        PROVE  (table[t] # None /\ b.close # t) \/ (b.parse /\ sql[b.call] = t) => U[t] # None
    BY <1>3, <2>1
  <2> QED
    BY <1>1, <2>1, LeftOfTail DEF b
<1> QED
  BY <1>2, <1>4, <1>5 DEF U, b

\* What will be left of a statement to which nothing has happened is what is
\* cached of it.
LEMMA AgreementKept ==
  ASSUME CacheSize > 0, TypeInv, FlightInv, Agreed, [Next]_vars
  PROVE  Agreed'
<1>1. TypeOK /\ UnderWay
  BY DEF TypeInv, FlightInv
<1>2. /\ status \in [Calls -> Statuses] /\ outbox \in Seq(Batches) /\ Len(outbox) \in Nat
      /\ Keyed(cache) /\ answers \in Seq(Reply) /\ Len(answers) \in Nat
      /\ None \notin Versions /\ schema \in Versions /\ sql \in [Calls -> Stmts]
      /\ None \notin Stmts /\ disturbed \subseteq Stmts
  BY <1>1, TypeFacts, ConstantFacts, LenProperties DEF TypeOK, Reply
<1>3. PreparedDisabled = FALSE
  BY PreparedAssumption DEF PreparedDisabled
<1>4. /\ \A i \in 1 .. Len(outbox) : outbox[i].close # SqlAt(i)
      /\ \A s \in Stmts \ disturbed :
           /\ table[s] \in {None, schema}
           /\ IsCached(s) <=> Left(outbox, table, sql, Len(outbox), s)
           /\ \A k \in Calls :
                sql[k] = s => status[k] \in {"new", "sent1", "done", "08P01"}
      /\ \A i \in 1 .. Len(outbox) : SqlAt(i) \notin disturbed =>
           (outbox[i].parse <=> ~Left(outbox, table, sql, i - 1, SqlAt(i)))
      /\ \A i \in 1 .. Len(answers) : sql[answers[i].call] \notin disturbed =>
           answers[i].result \in {"done", "08P01"}
  BY DEF Agreed
<1>s. \A i \in 1 .. Len(outbox) : SqlAt(i) \in Stmts
  <2>1. \A i \in 1 .. Len(outbox) : outbox[i] \in Batches
    BY <1>2, ElementOfSeq
  <2> QED
    BY <1>2, <2>1 DEF SqlAt, Batches
<1>5. ASSUME NEW k \in Calls, NEW n \in {1, 2}, NEW fresh \in BOOLEAN,
             NEW e \in Entries, NEW b \in Batches, StageStep(k, n, fresh, e, b)
      PROVE  Agreed'
  <2> DEFINE m == Len(outbox)
  <2>1. /\ disturbed' = disturbed /\ schema' = schema /\ answers' = answers
        /\ status' = [status EXCEPT ![k] = IF n = 1 THEN "sent1" ELSE "sent2"]
        /\ \/ n = 1 /\ fresh = PreparedDisabled
           \/ n = 2 /\ status[k] = "retrying"
    BY <1>5 DEF StageStep, Staged, serverVars
  <2>2. sql[k] \notin disturbed => n = 1 /\ fresh = FALSE
    BY <1>2, <1>3, <1>4, <2>1
  <2>3. /\ sql' = sql /\ table' = table /\ b.call = k /\ b.close # sql[k]
        /\ Len(outbox') = m + 1
        /\ \A i \in 1 .. m : outbox'[i] = outbox[i]
        /\ outbox'[m + 1] = b
        /\ \A i \in 0 .. m : \A s :
             Left(outbox', table', sql', i, s) <=> Left(outbox, table, sql, i, s)
        /\ \A s : Left(outbox', table', sql', Len(outbox'), s) <=>
                    \/ b.parse /\ sql[k] = s
                    \/ Left(outbox, table, sql, m, s) /\ b.close # s
    BY <1>1, <1>5, LeftAfterStage
  <2>4. /\ \A s \in Stmts : IsCached(s)' <=> \/ IsCached(s) /\ b.close # s
                                             \/ b.parse /\ sql[k] = s
        /\ b.parse <=> fresh \/ ~IsCached(sql[k])
    BY <1>1, <1>5, StagedCache
  <2>5. /\ \A i \in 1 .. m + 1 : i \in 1 .. m \/ i = m + 1
        /\ \A i \in 1 .. m + 1 : i - 1 \in 0 .. m
        /\ m + 1 - 1 = m
    BY <1>2
  <2> HIDE DEF m
  <2>6. ASSUME NEW i \in 1 .. Len(outbox')
        PROVE  /\ outbox'[i].close # sql'[outbox'[i].call]
               /\ sql'[outbox'[i].call] \notin disturbed' =>
                    (outbox'[i].parse <=>
                       ~Left(outbox', table', sql', i - 1, sql'[outbox'[i].call]))
    <3>1. CASE i \in 1 .. m
      <4>1. /\ outbox'[i] = outbox[i] /\ sql'[outbox'[i].call] = SqlAt(i)
            /\ i - 1 \in 0 .. m
        BY <3>1, <2>3, <2>5 DEF SqlAt
      <4> QED
        BY <4>1, <3>1, <1>4, <2>1, <2>3 DEF m
    <3>2. CASE i = m + 1
      <4>1. /\ outbox'[i] = b /\ sql'[outbox'[i].call] = sql[k] /\ i - 1 = m
            /\ m \in 0 .. m /\ sql[k] \in Stmts
        BY <3>2, <2>3, <2>5, <1>2 DEF m
      <4>2. sql[k] \notin disturbed =>
              /\ b.parse <=> ~IsCached(sql[k])
              /\ IsCached(sql[k]) <=> Left(outbox, table, sql, m, sql[k])
        BY <4>1, <1>4, <2>2, <2>4 DEF m
      <4> QED
        BY <4>1, <4>2, <2>1, <2>3
    <3> QED
      BY <3>1, <3>2, <2>3, <2>5
  <2>7. \A s \in Stmts \ disturbed :
          IsCached(s)' <=> Left(outbox', table', sql', Len(outbox'), s)
    BY <1>4, <2>3, <2>4 DEF m
  <2>8. \A l \in Calls : sql[l] \notin disturbed =>
          status'[l] \in {"new", "sent1", "done", "08P01"}
    BY <1>2, <1>4, <2>1, <2>2
  <2> QED
    BY <1>4, <2>1, <2>3, <2>6, <2>7, <2>8 DEF Agreed, SqlAt
<1>6. ASSUME NEW k \in Calls, Abandon(k)
      PROVE  Agreed'
  <2>1. /\ cache' = Forgotten(sql[k])
        /\ status[k] = "retrying"
        /\ status' = [status EXCEPT ![k] = "abandoned"]
        /\ UNCHANGED <<sql, oids, bound, outbox, answers, table, schema, disturbed>>
    BY <1>6 DEF Abandon, serverVars
  <2>2. Range(cache') = {x \in Range(cache) : SqlOf(x) # sql[k]}
    BY <1>2, <2>1, ForgottenFacts
  <2>3. sql[k] \in disturbed
    BY <1>2, <1>4, <2>1
  <2>4. \A s \in Stmts \ disturbed : IsCached(s)' <=> IsCached(s)
    BY <2>1, <2>2, <2>3 DEF IsCached, SqlOf
  <2>5. \A l \in Calls : sql[l] \notin disturbed =>
          status'[l] \in {"new", "sent1", "done", "08P01"}
    BY <1>2, <1>4, <2>1, <2>3
  <2> QED
    BY <1>4, <2>1, <2>4, <2>5 DEF Agreed, SqlAt
<1>7. ASSUME Receive
      PROVE  Agreed'
  <2> DEFINE a == answers[1]
  <2>1. /\ answers # <<>> /\ answers' = Tail(answers)
        /\ status' = [status EXCEPT ![a.call] =
                        IF @ = "sent1" /\ a.result \in Retryable
                        THEN "retrying" ELSE a.result]
        /\ UNCHANGED <<sql, cache, outbox, table, schema, faults, disturbed>>
    BY <1>1, <1>7, ReceiveFacts
  <2>2. /\ Len(answers') = Len(answers) - 1
        /\ 1 \in 1 .. Len(answers)
        /\ \A i \in 1 .. Len(answers) - 1 :
             answers'[i] = answers[i + 1] /\ i + 1 \in 1 .. Len(answers)
    BY <1>2, <2>1, Dequeued
  <2> HIDE DEF a
  <2>3. sql[a.call] \notin disturbed => a.result \in {"done", "08P01"}
    BY <1>4, <2>2 DEF a
  <2>4. \A l \in Calls : sql[l] \notin disturbed =>
          status'[l] \in {"new", "sent1", "done", "08P01"}
    BY <1>2, <1>4, <2>1, <2>3 DEF Retryable
  <2>5. \A i \in 1 .. Len(answers') : sql[answers'[i].call] \notin disturbed =>
          answers'[i].result \in {"done", "08P01"}
    BY <1>2, <1>4, <2>2
  <2>6. \A s : IsCached(s)' <=> IsCached(s)
    BY <2>1 DEF IsCached, SqlOf
  <2> QED
    BY <1>4, <2>1, <2>4, <2>5, <2>6 DEF Agreed, SqlAt
<1>8. ASSUME outbox # <<>>, NEW r \in Results, NEW v \in Versions \cup {None},
             Ran(Head(outbox), r, v)
      PROVE  Agreed'
  <2> DEFINE b == outbox[1]
             s == sql[b.call]
             a == [call |-> b.call, result |-> r, columns |-> v]
             m == Len(outbox)
  <2>1. /\ Len(outbox') = m - 1
        /\ 1 \in 1 .. m /\ Head(outbox) = b
        /\ \A i \in 1 .. m - 1 : outbox'[i] = outbox[i + 1] /\ i + 1 \in 1 .. m
    BY <1>2, <1>8, Dequeued DEF Ran
  <2>2. Ran(b, r, v)
    BY <1>8, <2>1
  <2>3. /\ answers' = Append(answers, a) /\ outbox' = Tail(outbox)
        /\ UNCHANGED <<sql, cache, oids, status, bound, schema>>
        /\ b \in Batches /\ disturbed \subseteq disturbed'
    BY <2>2 DEF Ran, clientVars
  <2>5. /\ \A t \in Stmts :
             table'[t] # None => \/ table'[t] = table[t] /\ t # b.close
                                 \/ table'[t] = schema /\ t = s /\ b.parse
        /\ s \notin disturbed' => (b.parse => table'[s] # None)
        /\ s \notin disturbed' =>
             (\/ b.parse /\ (s = b.close \/ table[s] = None)
              \/ ~b.parse /\ s # b.close /\ table[s] = schema
              => r \in {"done", "08P01"})
    BY <2>2 DEF Ran
  <2>6. a \in Reply /\ a.result = r /\ sql[a.call] = s
    BY <2>3 DEF Reply, Batches, Results, Statuses
  <2>7. s = SqlAt(1) /\ s \in Stmts /\ b.parse \in BOOLEAN
    BY <1>2, <2>3 DEF SqlAt, Batches
  <2> HIDE DEF a, s, m
  <2>8. /\ Len(answers') = Len(answers) + 1
        /\ \A i \in 1 .. Len(answers) : answers'[i] = answers[i]
        /\ answers'[Len(answers) + 1] = a
    BY <1>2, <2>3, <2>6, Enqueued
  <2>9. s \notin disturbed => /\ b.parse <=> table[s] = None
                              /\ b.close # s
    <3>1. s \notin disturbed => /\ b.parse <=> ~Left(outbox, table, sql, 1 - 1, s)
                                /\ b.close # s
      BY <1>4, <2>1, <2>7 DEF m
    <3>2. 1 - 1 = 0
      OBVIOUS
    <3> QED
      BY <3>1, <3>2, LeftOfNothing
  <2>10. s \notin disturbed' => r \in {"done", "08P01"}
    BY <1>4, <2>3, <2>5, <2>7, <2>9
  <2>12. \A i \in 0 .. m - 1 : \A t \in Stmts \ disturbed' :
           Left(outbox', table', sql', i, t) <=> Left(outbox, table, sql, i + 1, t)
    <3> SUFFICES ASSUME NEW i \in 0 .. m - 1, NEW t \in Stmts \ disturbed'
                 PROVE  Left(outbox', table', sql', i, t) <=>
                          Left(outbox, table, sql, i + 1, t)
      OBVIOUS
    <3>1. t # sql[outbox[1].call] \/ ~outbox[1].parse \/ table'[t] # None
      BY <2>5 DEF s
    <3>2. i \in 0 .. Len(outbox) - 1 /\ t \in Stmts
      BY DEF m
    <3> HIDE DEF b
    <3> QED
      BY <1>1, <1>8, <3>1, <3>2, LeftAfterRun
  <2> HIDE DEF b
  <2>13. \A t \in Stmts \ disturbed' : table'[t] \in {None, schema}
    BY <1>4, <2>3, <2>5
  <2>14. ASSUME NEW i \in 1 .. Len(outbox')
         PROVE  /\ outbox'[i].close # sql'[outbox'[i].call]
                /\ sql'[outbox'[i].call] \notin disturbed' =>
                     (outbox'[i].parse <=>
                        ~Left(outbox', table', sql', i - 1, sql'[outbox'[i].call]))
    <3>1. /\ outbox'[i] = outbox[i + 1] /\ i + 1 \in 1 .. m
          /\ sql'[outbox'[i].call] = SqlAt(i + 1)
          /\ i - 1 \in 0 .. m - 1 /\ i - 1 + 1 = i /\ i + 1 - 1 = i
      BY <1>2, <2>1, <2>3 DEF SqlAt, m
    <3>2. SqlAt(i + 1) \in Stmts
      BY <3>1, <1>s DEF m
    <3>3. SqlAt(i + 1) \notin disturbed' =>
            (Left(outbox', table', sql', i - 1, SqlAt(i + 1)) <=>
               Left(outbox, table, sql, i, SqlAt(i + 1)))
      BY <3>1, <3>2, <2>12
    <3>4. /\ SqlAt(i + 1) \notin disturbed =>
               (outbox[i + 1].parse <=> ~Left(outbox, table, sql, i + 1 - 1, SqlAt(i + 1)))
          /\ outbox[i + 1].close # SqlAt(i + 1)
      BY <3>1, <1>4 DEF m
    <3> QED
      BY <3>1, <3>3, <3>4, <2>3
  <2>15. \A t \in Stmts \ disturbed' :
           IsCached(t)' <=> Left(outbox', table', sql', Len(outbox'), t)
    <3>1. m - 1 \in 0 .. m - 1 /\ m - 1 + 1 = m
      BY <1>2, <2>1 DEF m
    <3>2. \A t : IsCached(t)' <=> IsCached(t)
      BY <2>3 DEF IsCached, SqlOf
    <3>3. \A t \in Stmts \ disturbed' : IsCached(t) <=> Left(outbox, table, sql, m, t)
      BY <1>4, <2>3 DEF m
    <3> QED
      BY <3>1, <3>2, <3>3, <2>1, <2>12
  <2>16. \A i \in 1 .. Len(answers') : sql[answers'[i].call] \notin disturbed' =>
           answers'[i].result \in {"done", "08P01"}
    <3>1. \A i \in 1 .. Len(answers') : i \in 1 .. Len(answers) \/ i = Len(answers) + 1
      BY <1>2, <2>8
    <3> QED
      BY <3>1, <1>4, <2>3, <2>6, <2>8, <2>10
  <2>17. \A t \in Stmts \ disturbed' : \A k \in Calls :
           sql[k] = t => status[k] \in {"new", "sent1", "done", "08P01"}
    BY <1>4, <2>3
  <2> QED
    BY <2>3, <2>13, <2>14, <2>15, <2>16, <2>17 DEF Agreed, SqlAt
<1>9. ASSUME Migrate \/ Deallocate
      PROVE  Agreed'
  <2>1. /\ disturbed' = disturbed \cup {s \in Stmts : table[s] # None}
        /\ table' = table \/ table' = [s \in Stmts |-> None]
        /\ UNCHANGED <<sql, cache, oids, status, bound, outbox, answers>>
    BY <1>9 DEF Migrate, Deallocate, Fault, AtServer, clientVars
  <2>2. \A s \in Stmts \ disturbed' :
          s \in Stmts \ disturbed /\ table[s] = None /\ table'[s] = None
    BY <2>1
  <2>3. \A s \in Stmts \ disturbed' : \A i :
          Left(outbox', table', sql', i, s) <=> Left(outbox, table, sql, i, s)
    BY <2>1, <2>2 DEF Left
  <2>4. \A s : IsCached(s)' <=> IsCached(s)
    BY <2>1 DEF IsCached, SqlOf
  <2>5. \A s \in Stmts \ disturbed' :
          /\ table'[s] \in {None, schema'}
          /\ IsCached(s)' <=> Left(outbox', table', sql', Len(outbox'), s)
          /\ \A k \in Calls :
               sql'[k] = s => status'[k] \in {"new", "sent1", "done", "08P01"}
    BY <1>4, <2>1, <2>2, <2>3, <2>4
  <2>6. ASSUME NEW i \in 1 .. Len(outbox'), sql'[outbox'[i].call] \notin disturbed'
        PROVE  outbox'[i].parse <=>
                 ~Left(outbox', table', sql', i - 1, sql'[outbox'[i].call])
    <3>1. /\ outbox' = outbox /\ sql'[outbox'[i].call] = SqlAt(i)
          /\ SqlAt(i) \in Stmts \ disturbed'
      BY <1>s, <2>1, <2>6 DEF SqlAt
    <3> QED
      BY <3>1, <1>4, <2>2, <2>3
  <2>7. \A i \in 1 .. Len(answers') : sql'[answers'[i].call] \notin disturbed' =>
          answers'[i].result \in {"done", "08P01"}
    BY <1>4, <2>1
  <2> QED
    BY <1>4, <2>1, <2>5, <2>6, <2>7 DEF Agreed, SqlAt
<1>10. ASSUME UNCHANGED vars
       PROVE  Agreed'
  <2>1. UNCHANGED <<sql, cache, oids, status, bound, outbox, answers, table, schema, faults,
                    disturbed>>
    BY <1>10 DEF vars, clientVars, serverVars
  <2> QED
    BY <1>4, <2>1 DEF Agreed, SqlAt, IsCached, SqlOf
<1> QED
  BY <1>1, <1>5, <1>6, <1>7, <1>8, <1>9, <1>10, StepCases

-----------------------------------------------------------------------------
(* Statements not tangled *)

\* Such a statement has one call open at a time.  It is parsed only when the
\* batches before leave no name of it, and an error of names has come to a
\* first attempt, and leaves none either.
Untangled ==
  /\ \A s \in Stmts \ tangled :
       /\ table[s] \in {None, schema}
       /\ Left(outbox, table, sql, Len(outbox), s) => IsCached(s)
  /\ \A k, l \in Calls :
       sql[k] \notin tangled /\ sql[k] = sql[l] /\ Open(k) /\ Open(l) => k = l
  /\ \A i \in 1 .. Len(outbox) : SqlAt(i) \notin tangled =>
       /\ outbox[i].parse => ~Left(outbox, table, sql, i - 1, SqlAt(i))
       /\ status[outbox[i].call] = "sent2" => outbox[i].parse
  /\ \A i \in 1 .. Len(answers) : sql[answers[i].call] \notin tangled =>
       /\ answers[i].result # "42P05"
       /\ answers[i].result = "26000" => status[answers[i].call] = "sent1"
       /\ answers[i].result \in Retryable =>
            ~Left(outbox, table, sql, Len(outbox), sql[answers[i].call])
  /\ \A k \in Calls : sql[k] \notin tangled =>
       /\ status[k] = "retrying" => ~Left(outbox, table, sql, Len(outbox), sql[k])
       /\ status[k] \notin {"26000", "42P05"}

\* A retry finds its name free when no other call of its SQL is under way.
LEMMA UntangledKept ==
  ASSUME CacheSize > 0, TypeInv, FlightInv, Untangled, [Next]_vars
  PROVE  Untangled'
<1>1. TypeOK /\ UnderWay
  BY DEF TypeInv, FlightInv
<1>2. /\ status \in [Calls -> Statuses] /\ outbox \in Seq(Batches) /\ Len(outbox) \in Nat
      /\ Keyed(cache) /\ answers \in Seq(Reply) /\ Len(answers) \in Nat
      /\ sql \in [Calls -> Stmts] /\ None \notin Versions
  BY <1>1, TypeFacts, ConstantFacts, LenProperties DEF TypeOK, Reply
<1>3. PreparedDisabled = FALSE
  BY PreparedAssumption DEF PreparedDisabled
<1>b. \A i \in 1 .. Len(outbox) :
        /\ outbox[i].call \in Calls /\ SqlAt(i) = sql[outbox[i].call] /\ SqlAt(i) \in Stmts
        /\ status[outbox[i].call] \in {"sent1", "sent2"}
  <2>1. \A i \in 1 .. Len(outbox) : outbox[i] \in Batches
    BY <1>2, ElementOfSeq
  <2> QED
    BY <1>1, <1>2, <2>1 DEF SqlAt, Batches, UnderWay
<1>a. \A i \in 1 .. Len(answers) :
        /\ answers[i].call \in Calls /\ sql[answers[i].call] \in Stmts
        /\ status[answers[i].call] \in {"sent1", "sent2"}
        /\ answers[i].result \in Results
  <2>1. \A i \in 1 .. Len(answers) : answers[i] \in Reply
    BY <1>2, ElementOfSeq
  <2> QED
    BY <1>1, <1>2, <2>1 DEF Reply, UnderWay
<1>4. /\ \A s \in Stmts : s \notin tangled =>
           /\ table[s] \in {None, schema}
           /\ Left(outbox, table, sql, Len(outbox), s) => IsCached(s)
      /\ \A k, l \in Calls :
           sql[k] \notin tangled /\ sql[k] = sql[l] /\ Open(k) /\ Open(l) => k = l
      /\ \A i \in 1 .. Len(outbox) : SqlAt(i) \notin tangled =>
           /\ outbox[i].parse => ~Left(outbox, table, sql, i - 1, SqlAt(i))
           /\ status[outbox[i].call] = "sent2" => outbox[i].parse
      /\ \A i \in 1 .. Len(answers) : sql[answers[i].call] \notin tangled =>
           /\ answers[i].result # "42P05"
           /\ answers[i].result = "26000" => status[answers[i].call] = "sent1"
           /\ answers[i].result \in Retryable =>
                ~Left(outbox, table, sql, Len(outbox), sql[answers[i].call])
      /\ \A k \in Calls : sql[k] \notin tangled =>
           /\ status[k] = "retrying" => ~Left(outbox, table, sql, Len(outbox), sql[k])
           /\ status[k] \notin {"26000", "42P05"}
  BY DEF Untangled
<1>5. ASSUME NEW k \in Calls, NEW n \in {1, 2}, NEW fresh \in BOOLEAN,
             NEW e \in Entries, NEW b \in Batches, StageStep(k, n, fresh, e, b)
      PROVE  Untangled'
  <2> DEFINE m == Len(outbox)
  <2>1. /\ schema' = schema /\ answers' = answers /\ status[k] \in {"new", "retrying"}
        /\ tangled \subseteq tangled'
        /\ status' = [status EXCEPT ![k] = IF n = 1 THEN "sent1" ELSE "sent2"]
        /\ \/ /\ n = 1 /\ fresh = FALSE
              /\ sql[k] \notin tangled' => \A l \in Calls : sql[l] = sql[k] => ~Open(l)
           \/ n = 2 /\ fresh = TRUE /\ status[k] = "retrying"
    BY <1>3, <1>5 DEF StageStep, Staged, serverVars
  <2>2. /\ sql' = sql /\ table' = table /\ b.call = k
        /\ Len(outbox') = m + 1
        /\ \A i \in 1 .. m : outbox'[i] = outbox[i]
        /\ outbox'[m + 1] = b
        /\ \A i \in 0 .. m : \A s :
             Left(outbox', table', sql', i, s) <=> Left(outbox, table, sql, i, s)
        /\ \A s : Left(outbox', table', sql', Len(outbox'), s) <=>
                    \/ b.parse /\ sql[k] = s
                    \/ Left(outbox, table, sql, m, s) /\ b.close # s
    BY <1>1, <1>5, LeftAfterStage
  <2>3. /\ \A s \in Stmts : IsCached(s)' <=> \/ IsCached(s) /\ b.close # s
                                             \/ b.parse /\ sql[k] = s
        /\ b.parse <=> fresh \/ ~IsCached(sql[k])
    BY <1>1, <1>5, StagedCache
  <2>4. /\ \A i \in 1 .. m + 1 : i \in 1 .. m \/ i = m + 1
        /\ \A i \in 1 .. m : i - 1 \in 0 .. m
        /\ m + 1 - 1 = m /\ m \in 0 .. m
    BY <1>2
  <2>5. b.parse /\ sql[k] \notin tangled => ~Left(outbox, table, sql, m, sql[k])
    BY <1>2, <1>4, <2>1, <2>3
  <2> HIDE DEF m
  <2>6. ASSUME NEW i \in 1 .. Len(outbox'), sql'[outbox'[i].call] \notin tangled'
        PROVE  /\ outbox'[i].parse =>
                    ~Left(outbox', table', sql', i - 1, sql'[outbox'[i].call])
               /\ status'[outbox'[i].call] = "sent2" => outbox'[i].parse
    <3>1. CASE i \in 1 .. m
      <4>1. /\ outbox'[i] = outbox[i] /\ sql'[outbox'[i].call] = SqlAt(i)
            /\ i - 1 \in 0 .. m /\ outbox[i].call # k /\ outbox[i].call \in Calls
        BY <1>b, <3>1, <2>1, <2>2, <2>4 DEF SqlAt, m
      <4>2. status'[outbox'[i].call] = status[outbox[i].call] /\ SqlAt(i) \notin tangled
        BY <4>1, <2>1, <1>2, <2>6
      <4> QED
        BY <4>1, <4>2, <3>1, <1>4, <2>2 DEF m
    <3>2. CASE i = m + 1
      <4>1. /\ outbox'[i] = b /\ sql'[outbox'[i].call] = sql[k] /\ i - 1 = m /\ m \in 0 .. m
        BY <3>2, <2>2, <2>4
      <4>2. status'[k] = "sent2" => b.parse
        BY <1>2, <2>1, <2>3
      <4>3. sql[k] \notin tangled
        BY <4>1, <2>1, <2>6
      <4> QED
        BY <4>1, <4>2, <4>3, <2>2, <2>5
    <3> QED
      BY <3>1, <3>2, <2>2, <2>4
  <2>7. \A s \in Stmts : s \notin tangled' =>
          /\ table'[s] \in {None, schema'}
          /\ Left(outbox', table', sql', Len(outbox'), s) => IsCached(s)'
    BY <1>4, <2>1, <2>2, <2>3 DEF m
  <2>8. \A l \in Calls : l # k /\ Open(l) /\ sql[l] \notin tangled' =>
          /\ sql[l] # sql[k] /\ status'[l] = status[l]
          /\ Left(outbox', table', sql', Len(outbox'), sql[l]) =>
               Left(outbox, table, sql, m, sql[l])
    <3> SUFFICES ASSUME NEW l \in Calls, l # k, Open(l), sql[l] \notin tangled'
                 PROVE  /\ sql[l] # sql[k] /\ status'[l] = status[l]
                        /\ Left(outbox', table', sql', Len(outbox'), sql[l]) =>
                             Left(outbox, table, sql, m, sql[l])
      OBVIOUS
    <3>1. sql[l] \notin tangled /\ status'[l] = status[l]
      BY <1>2, <2>1
    <3>2. status[k] = "retrying" => Open(k)
      BY DEF Open
    <3>3. sql[l] # sql[k]
      BY <1>4, <2>1, <3>1, <3>2
    <3> QED
      BY <2>2, <3>1, <3>3
  <2>9. ASSUME NEW i \in 1 .. Len(answers'), sql'[answers'[i].call] \notin tangled'
        PROVE  /\ answers'[i].result # "42P05"
               /\ answers'[i].result = "26000" => status'[answers'[i].call] = "sent1"
               /\ answers'[i].result \in Retryable =>
                    ~Left(outbox', table', sql', Len(outbox'), sql'[answers'[i].call])
    <3>1. /\ answers' = answers /\ i \in 1 .. Len(answers)
          /\ answers[i].call \in Calls /\ answers[i].call # k /\ Open(answers[i].call)
          /\ sql[answers[i].call] \notin tangled' /\ sql[answers[i].call] \notin tangled
      BY <1>a, <2>1, <2>2, <2>9 DEF Open
    <3> QED
      BY <3>1, <1>4, <2>2, <2>8 DEF m
  <2>10. \A l \in Calls : sql'[l] \notin tangled' =>
           /\ status'[l] = "retrying" => ~Left(outbox', table', sql', Len(outbox'), sql'[l])
           /\ status'[l] \notin {"26000", "42P05"}
    <3>1. \A l \in Calls : status'[l] = "retrying" => l # k /\ status[l] = "retrying"
      BY <1>2, <2>1
    <3>2. \A l \in Calls : status'[l] \in {"26000", "42P05"} => status[l] = status'[l]
      BY <1>2, <2>1
    <3> QED
      BY <3>1, <3>2, <1>4, <2>1, <2>2, <2>8 DEF m, Open
  <2>11. \A j, l \in Calls :
           sql'[j] \notin tangled' /\ sql'[j] = sql'[l] /\ Open(j)' /\ Open(l)' => j = l
    <3>1. \A l \in Calls : l # k => (Open(l)' <=> Open(l))
      BY <1>2, <2>1 DEF Open
    <3>2. \A l \in Calls : l # k /\ Open(l)' /\ sql[l] \notin tangled' => sql[l] # sql[k]
      BY <2>8, <3>1
    <3> QED
      BY <3>1, <3>2, <1>4, <2>1, <2>2
  <2> QED
    BY <2>6, <2>7, <2>9, <2>10, <2>11 DEF Untangled, SqlAt
<1>6. ASSUME NEW k \in Calls, Abandon(k)
      PROVE  Untangled'
  <2>1. /\ cache' = Forgotten(sql[k])
        /\ status[k] = "retrying"
        /\ status' = [status EXCEPT ![k] = "abandoned"]
        /\ UNCHANGED <<sql, oids, bound, outbox, answers, table, schema, tangled>>
    BY <1>6 DEF Abandon, serverVars
  <2>2. Range(cache') = {x \in Range(cache) : SqlOf(x) # sql[k]}
    BY <1>2, <2>1, ForgottenFacts
  <2>3. \A s \in Stmts : IsCached(s) /\ s # sql[k] => IsCached(s)'
    BY <2>1, <2>2 DEF IsCached, SqlOf
  <2>4. \A s \in Stmts : s \notin tangled =>
          (Left(outbox, table, sql, Len(outbox), s) => IsCached(s)')
    BY <1>4, <2>1, <2>3
  <2>5. \A l \in Calls : l # k => status'[l] = status[l]
    BY <1>2, <2>1
  <2>6. /\ \A i \in 1 .. Len(outbox) : outbox[i].call # k /\ outbox[i].call \in Calls
        /\ \A i \in 1 .. Len(answers) : answers[i].call # k /\ answers[i].call \in Calls
        /\ status'[k] = "abandoned"
    BY <1>2, <1>a, <1>b, <2>1
  <2>7. \A l \in Calls : sql[l] \notin tangled =>
          /\ status'[l] = "retrying" => ~Left(outbox, table, sql, Len(outbox), sql[l])
          /\ status'[l] \notin {"26000", "42P05"}
    BY <1>4, <2>5, <2>6
  <2>8. \A l \in Calls : Open(l)' => Open(l)
    BY <2>5, <2>6 DEF Open
  <2> QED
    BY <1>4, <2>1, <2>4, <2>5, <2>6, <2>7, <2>8 DEF Untangled, SqlAt
<1>7. ASSUME Receive
      PROVE  Untangled'
  <2> DEFINE a == answers[1]
  <2>1. /\ answers # <<>> /\ answers' = Tail(answers)
        /\ status' = [status EXCEPT ![a.call] =
                        IF @ = "sent1" /\ a.result \in Retryable
                        THEN "retrying" ELSE a.result]
        /\ UNCHANGED <<sql, cache, outbox, table, schema, tangled>>
    BY <1>1, <1>7, ReceiveFacts
  <2>2. /\ Len(answers') = Len(answers) - 1
        /\ 1 \in 1 .. Len(answers)
        /\ \A i \in 1 .. Len(answers) - 1 :
             answers'[i] = answers[i + 1] /\ i + 1 \in 1 .. Len(answers) /\ i + 1 # 1
    BY <1>2, <2>1, Dequeued
  <2>3. /\ a.call \in Calls /\ a.result \in Results /\ Open(a.call)
        /\ sql[a.call] \notin tangled =>
             /\ a.result # "42P05"
             /\ a.result = "26000" => status[a.call] = "sent1"
             /\ a.result \in Retryable =>
                  ~Left(outbox, table, sql, Len(outbox), sql[a.call])
    BY <1>4, <1>a, <2>2 DEF Open
  <2>4. /\ \A i \in 1 .. Len(outbox) : outbox[i].call # a.call
        /\ \A i \in 1 .. Len(answers) - 1 : answers[i + 1].call # a.call
    BY <1>1, <2>2 DEF UnderWay
  <2> HIDE DEF a
  <2>5. /\ \A l \in Calls : l # a.call => status'[l] = status[l]
        /\ status'[a.call] = "retrying" => a.result \in Retryable
        /\ sql[a.call] \notin tangled => status'[a.call] \notin {"26000", "42P05"}
    BY <1>2, <2>1, <2>3 DEF Retryable, Results
  <2>6. \A l \in Calls : sql[l] \notin tangled =>
          /\ status'[l] = "retrying" => ~Left(outbox, table, sql, Len(outbox), sql[l])
          /\ status'[l] \notin {"26000", "42P05"}
    BY <1>4, <2>3, <2>5
  <2>7. \A i \in 1 .. Len(outbox) : status'[outbox[i].call] = status[outbox[i].call]
    BY <1>b, <2>4, <2>5
  <2>8. ASSUME NEW i \in 1 .. Len(answers'), sql[answers'[i].call] \notin tangled
        PROVE  /\ answers'[i].result # "42P05"
               /\ answers'[i].result = "26000" => status'[answers'[i].call] = "sent1"
               /\ answers'[i].result \in Retryable =>
                    ~Left(outbox, table, sql, Len(outbox), sql[answers'[i].call])
    <3>1. /\ answers'[i] = answers[i + 1] /\ i + 1 \in 1 .. Len(answers)
          /\ answers[i + 1].call # a.call
      BY <1>2, <2>2, <2>4
    <3>2. status'[answers'[i].call] = status[answers[i + 1].call]
      BY <3>1, <1>a, <2>5
    <3> QED
      BY <3>1, <3>2, <1>4, <2>8
  <2>9. \A s : IsCached(s)' <=> IsCached(s)
    BY <2>1 DEF IsCached, SqlOf
  <2>10. \A l \in Calls : Open(l)' => Open(l)
    BY <2>3, <2>5 DEF Open
  <2> QED
    BY <1>4, <2>1, <2>6, <2>7, <2>8, <2>9, <2>10 DEF Untangled, SqlAt
<1>8. ASSUME outbox # <<>>, NEW r \in Results, NEW v \in Versions \cup {None},
             Ran(Head(outbox), r, v)
      PROVE  Untangled'
  <2> DEFINE b == outbox[1]
             s == sql[b.call]
             a == [call |-> b.call, result |-> r, columns |-> v]
             m == Len(outbox)
  <2>1. /\ Len(outbox') = m - 1
        /\ 1 \in 1 .. m /\ Head(outbox) = b
        /\ \A i \in 1 .. m - 1 : outbox'[i] = outbox[i + 1] /\ i + 1 \in 1 .. m /\ i + 1 # 1
        /\ m - 1 \in 0 .. m - 1 /\ m - 1 + 1 = m
    BY <1>2, <1>8, Dequeued DEF Ran
  <2>2. Ran(b, r, v)
    BY <1>8, <2>1
  <2>3. /\ answers' = Append(answers, a) /\ outbox' = Tail(outbox)
        /\ UNCHANGED <<sql, cache, oids, status, bound, schema>>
        /\ b \in Batches /\ tangled \subseteq tangled'
    BY <2>2 DEF Ran, clientVars
  <2>4. /\ \A t \in Stmts :
             table'[t] # None => \/ table'[t] = table[t] /\ t # b.close
                                 \/ table'[t] = schema /\ t = s /\ b.parse
        /\ r = "26000" => ~b.parse /\ table'[s] = None
        /\ r = "42P05" => b.parse /\ table[s] # None
        /\ r = "0A000" => table'[s] # schema \/ s \in tangled'
    BY <2>2 DEF Ran
  <2>5. a \in Reply /\ a.result = r /\ a.call = b.call
    BY <2>3 DEF Reply, Batches, Results, Statuses
  <2>6. /\ s = SqlAt(1) /\ s \in Stmts /\ b.call \in Calls
        /\ status[b.call] \in {"sent1", "sent2"}
        /\ s \notin tangled /\ status[b.call] = "sent2" => b.parse
    BY <1>4, <1>b, <2>1
  <2> HIDE DEF a, m
  <2>7. /\ Len(answers') = Len(answers) + 1
        /\ \A i \in 1 .. Len(answers) : answers'[i] = answers[i]
        /\ answers'[Len(answers) + 1] = a
    BY <1>2, <2>3, <2>5, Enqueued
  <2>8. \A i \in 0 .. m - 1 : \A t \in Stmts :
          Left(outbox', table', sql', i, t) => Left(outbox, table, sql, i + 1, t)
    BY <1>1, <1>8, LeftAfterRun DEF m
  <2>9. \A t \in Stmts : Left(outbox', table', sql', Len(outbox'), t) =>
                           Left(outbox, table, sql, m, t)
    BY <2>1, <2>8
  <2>10. \A t \in Stmts : t \notin tangled' => table'[t] \in {None, schema}
    BY <1>4, <2>3, <2>4
  <2>11. s \notin tangled => r # "42P05"
    <3>1. s \notin tangled /\ b.parse => ~Left(outbox, table, sql, 1 - 1, s)
      BY <1>4, <2>1, <2>6 DEF m
    <3>2. 1 - 1 = 0
      OBVIOUS
    <3> QED
      BY <3>1, <3>2, <2>4, LeftOfNothing
  <2>12. s \notin tangled' /\ r \in Retryable =>
           ~Left(outbox', table', sql', Len(outbox'), s)
    <3>1. s \notin tangled' /\ r \in Retryable => table'[s] = None
      BY <2>4, <2>6, <2>10 DEF Retryable
    <3>2. ASSUME s \notin tangled, NEW i \in 1 .. m - 1 PROVE sql[outbox'[i].call] # s
      <4>1. /\ outbox'[i] = outbox[i + 1] /\ i + 1 \in 1 .. Len(outbox)
            /\ 1 \in 1 .. Len(outbox) /\ i + 1 # 1
        BY <2>1 DEF m
      <4>2. /\ outbox[i + 1].call # outbox[1].call
            /\ outbox[i + 1].call \in Calls /\ Open(outbox[i + 1].call)
            /\ outbox[1].call \in Calls /\ Open(outbox[1].call)
        BY <4>1, <1>1, <1>b DEF UnderWay, Open
      <4> QED
        BY <4>1, <4>2, <3>2, <1>4
    <3> HIDE DEF s
    <3> QED
      BY <3>1, <3>2, <2>1, <2>3 DEF Left
  <2> HIDE DEF b, s
  <2>13. ASSUME NEW i \in 1 .. Len(outbox'), sql'[outbox'[i].call] \notin tangled'
         PROVE  /\ outbox'[i].parse =>
                     ~Left(outbox', table', sql', i - 1, sql'[outbox'[i].call])
                /\ status'[outbox'[i].call] = "sent2" => outbox'[i].parse
    <3>1. /\ outbox'[i] = outbox[i + 1] /\ i + 1 \in 1 .. Len(outbox)
          /\ sql'[outbox'[i].call] = SqlAt(i + 1)
          /\ i - 1 \in 0 .. m - 1 /\ i - 1 + 1 = i /\ i + 1 - 1 = i
      BY <1>2, <2>1, <2>3 DEF SqlAt, m
    <3>2. Left(outbox', table', sql', i - 1, SqlAt(i + 1)) =>
            Left(outbox, table, sql, i, SqlAt(i + 1))
      BY <3>1, <1>b, <2>8
    <3>3. /\ outbox[i + 1].parse => ~Left(outbox, table, sql, i + 1 - 1, SqlAt(i + 1))
          /\ status[outbox[i + 1].call] = "sent2" => outbox[i + 1].parse
      BY <3>1, <1>4, <2>3, <2>13
    <3> QED
      BY <3>1, <3>2, <3>3, <2>3
  <2>14. \A t \in Stmts : t \notin tangled' =>
           (Left(outbox', table', sql', Len(outbox'), t) => IsCached(t)')
    <3>1. \A t : IsCached(t)' <=> IsCached(t)
      BY <2>3 DEF IsCached, SqlOf
    <3> QED
      BY <3>1, <1>4, <2>3, <2>9 DEF m
  <2>15. ASSUME NEW i \in 1 .. Len(answers'), sql'[answers'[i].call] \notin tangled'
         PROVE  /\ answers'[i].result # "42P05"
                /\ answers'[i].result = "26000" => status'[answers'[i].call] = "sent1"
                /\ answers'[i].result \in Retryable =>
                     ~Left(outbox', table', sql', Len(outbox'), sql'[answers'[i].call])
    <3>1. i \in 1 .. Len(answers) \/ i = Len(answers) + 1
      BY <1>2, <2>7
    <3>2. CASE i \in 1 .. Len(answers)
      BY <3>2, <1>4, <1>a, <2>3, <2>7, <2>9, <2>15 DEF m
    <3>3. CASE i = Len(answers) + 1
      <4>1. answers'[i].result = r /\ answers'[i].call = b.call /\ sql'[b.call] = s
        BY <3>3, <2>3, <2>5, <2>7 DEF s
      <4>2. s \notin tangled' /\ s \notin tangled
        BY <4>1, <2>3, <2>15
      <4> QED
        BY <4>1, <4>2, <2>3, <2>4, <2>6, <2>11, <2>12
    <3> QED
      BY <3>1, <3>2, <3>3
  <2>16. \A l \in Calls : sql[l] \notin tangled' =>
           /\ status[l] = "retrying" => ~Left(outbox', table', sql', Len(outbox'), sql[l])
           /\ status[l] \notin {"26000", "42P05"}
    BY <1>2, <1>4, <2>3, <2>9 DEF m
  <2>17. \A k, l \in Calls :
           sql[k] \notin tangled' /\ sql[k] = sql[l] /\ Open(k)' /\ Open(l)' => k = l
    BY <1>4, <2>3 DEF Open
  <2> QED
    BY <2>3, <2>10, <2>13, <2>14, <2>15, <2>16, <2>17 DEF Untangled, SqlAt
<1>9. ASSUME Migrate
      PROVE  Untangled'
  <2>1. /\ UNCHANGED <<sql, cache, oids, status, bound, outbox, answers, table>>
        /\ tangled' = tangled \cup {s \in Stmts : table[s] # None}
    BY <1>9 DEF Migrate, AtServer, clientVars
  <2>2. \A s : IsCached(s)' <=> IsCached(s)
    BY <2>1 DEF IsCached, SqlOf
  <2>3. \A s \in Stmts : s \notin tangled' => s \notin tangled /\ table'[s] = None
    BY <2>1
  <2>4. \A l \in Calls : Open(l)' <=> Open(l)
    BY <2>1 DEF Open
  <2>5. tangled \subseteq tangled'
    BY <2>1
  <2> QED
    BY <1>4, <2>1, <2>2, <2>3, <2>4, <2>5 DEF Untangled, SqlAt
<1>10. ASSUME Deallocate
       PROVE  Untangled'
  <2>1. /\ UNCHANGED <<sql, cache, oids, status, bound, outbox, answers, schema, tangled>>
        /\ table' = [t \in Stmts |-> None]
    BY <1>10 DEF Deallocate, clientVars
  <2>2. \A t \in Stmts : \A i : Left(outbox', table', sql', i, t) =>
                                  Left(outbox, table, sql, i, t)
    BY <2>1 DEF Left
  <2>3. \A s : IsCached(s)' <=> IsCached(s)
    BY <2>1 DEF IsCached, SqlOf
  <2>4. \A i \in 1 .. Len(outbox) : SqlAt(i) \notin tangled /\ outbox[i].parse =>
          ~Left(outbox', table', sql', i - 1, SqlAt(i))
    BY <1>4, <1>b, <2>2
  <2>5. \A i \in 1 .. Len(answers) :
          sql[answers[i].call] \notin tangled /\ answers[i].result \in Retryable =>
            ~Left(outbox', table', sql', Len(outbox'), sql[answers[i].call])
    BY <1>4, <1>a, <2>1, <2>2
  <2>6. \A k \in Calls : sql[k] \notin tangled /\ status[k] = "retrying" =>
          ~Left(outbox', table', sql', Len(outbox'), sql[k])
    BY <1>2, <1>4, <2>1, <2>2
  <2>7. \A s \in Stmts : s \notin tangled =>
          (Left(outbox', table', sql', Len(outbox'), s) => IsCached(s)')
    BY <1>4, <2>1, <2>2, <2>3
  <2>8. \A t \in Stmts : table'[t] \in {None, schema'}
    BY <2>1
  <2>9. \A l \in Calls : Open(l)' <=> Open(l)
    BY <2>1 DEF Open
  <2> QED
    BY <1>4, <2>1, <2>4, <2>5, <2>6, <2>7, <2>8, <2>9 DEF Untangled, SqlAt
<1>11. ASSUME UNCHANGED vars
       PROVE  Untangled'
  <2>1. UNCHANGED <<sql, cache, oids, status, bound, outbox, answers, table, schema, faults,
                    disturbed, tangled>>
    BY <1>11 DEF vars, clientVars, serverVars
  <2>2. \A s : IsCached(s)' <=> IsCached(s)
    BY <2>1 DEF IsCached, SqlOf
  <2>3. \A l \in Calls : Open(l)' <=> Open(l)
    BY <2>1 DEF Open
  <2> QED
    BY <1>4, <2>1, <2>2, <2>3 DEF Untangled, SqlAt
<1> QED
  BY <1>1, <1>5, <1>6, <1>7, <1>8, <1>9, <1>10, <1>11, StepCases

-----------------------------------------------------------------------------
(* The theorems *)

\* Initially, nothing is under way, cached or parsed.
LEMMA InitInvariants == Init => TypeInv /\ FlightInv /\ FormatsInv /\ Accounted /\ Agreed
<1> SUFFICES ASSUME Init PROVE TypeInv /\ FlightInv /\ FormatsInv /\ Accounted /\ Agreed
  OBVIOUS
<1>1. /\ sql \in [Calls -> Stmts]
      /\ cache = <<>> /\ outbox = <<>> /\ answers = <<>>
      /\ oids = [e \in Entries |-> None]
      /\ status = [k \in Calls |-> "new"]
      /\ bound = [k \in Calls |-> None]
      /\ table = [s \in Stmts |-> None]
      /\ schema = 0 /\ faults = 0 /\ disturbed = {} /\ tangled = {}
  BY DEF Init
<1>2. TypeInv /\ None \notin Entries
  BY InitTypes, ConstantFacts
<1>3. /\ Len(outbox) = 0 /\ Len(answers) = 0 /\ Len(cache) = 0
      /\ \A i \in 1 .. 0 : FALSE
      /\ Range(cache) = {}
  BY <1>1, EmptySeq DEF Range
<1>4. FlightInv
  BY <1>1, <1>2, <1>3 DEF FlightInv, UnderWay, Fresh
<1>5. FormatsInv
  BY <1>1, <1>3
     DEF FormatsInv, BatchFormats, CacheColumns, AnswerColumns, HeldEntries, FormatsMatchPlan
<1>6. \A s \in Stmts : ~Left(outbox, table, sql, Len(outbox), s)
  BY <1>1, <1>3, LeftOfNothing
<1>7. Accounted
  BY <1>6 DEF Accounted
<1>8. \A s : ~IsCached(s)
  BY <1>3 DEF IsCached
<1>9. Agreed
  BY <1>1, <1>3, <1>6, <1>8 DEF Agreed
<1> QED
  BY <1>2, <1>4, <1>5, <1>7, <1>9

\* A Bind never carries result formats of another plan than the server's, with
\* migrations, deallocations, rejections and concurrent retries in any order.
THEOREM FormatsCorrect == Spec => []FormatsMatchPlan
<1> DEFINE Inv == TypeInv /\ FlightInv /\ FormatsInv
<1>1. Init => Inv
  BY InitInvariants
<1>2. Inv /\ [Next]_vars => Inv'
  BY Types, Flights, FormatsKept
<1>3. Inv => FormatsMatchPlan
  BY DEF FormatsInv
<1> QED
  BY <1>1, <1>2, <1>3, PTL DEF Spec

\* Nothing stays at the server that the cache does not know, but for the
\* statement of a retry that was abandoned between forget() and its Parse.
THEOREM AccountsCorrect == Spec => []NothingAccumulates
<1> DEFINE Inv == TypeInv /\ FlightInv /\ Accounted
<1>1. Init => Inv
  BY InitInvariants
<1>2. Inv /\ [Next]_vars => Inv'
  BY Types, Flights, AccountsKept
<1>3. Inv => NothingAccumulates
  <2> SUFFICES ASSUME Accounted, outbox = <<>>, NEW s \in Stmts, table[s] # None
               PROVE  IsCached(s) \/ \E k \in Calls : status[k] = "abandoned" /\ sql[k] = s
    BY DEF NothingAccumulates, AtServer
  <2>1. Len(outbox) = 0
    BY EmptySeq
  <2>2. Left(outbox, table, sql, Len(outbox), s)
    BY <2>1, LeftOfNothing
  <2> QED
    BY <2>2 DEF Accounted
<1> QED
  BY <1>1, <1>2, <1>3, PTL DEF Spec

\* With a cache (preparedCacheSize above 0), a statement to which nothing has
\* happened is cached exactly if the server has it, and no call of it retries or
\* fails for a name that is missing or taken, whatever happens to the others.
THEOREM StepCorrect == ASSUME CacheSize > 0 PROVE Spec => []InStep
<1> DEFINE Inv == TypeInv /\ FlightInv /\ Agreed
<1>1. Init => Inv
  BY InitInvariants
<1>2. Inv /\ [Next]_vars => Inv'
  BY Types, Flights, AgreementKept
<1>3. Inv => InStep
  <2> SUFFICES ASSUME Agreed, NEW s \in Stmts \ disturbed
               PROVE  /\ \A k \in Calls : sql[k] = s =>
                           status[k] \notin {"retrying", "26000", "42P05", "0A000"}
                      /\ outbox = <<>> => (s \in AtServer <=> IsCached(s))
    BY DEF InStep
  <2>1. \A k \in Calls : sql[k] = s =>
          status[k] \notin {"retrying", "26000", "42P05", "0A000"}
    BY DEF Agreed
  <2>2. ASSUME outbox = <<>> PROVE s \in AtServer <=> IsCached(s)
    <3>1. Len(outbox) = 0
      BY <2>2, EmptySeq
    <3>2. IsCached(s) <=> table[s] # None
      BY <3>1, LeftOfNothing DEF Agreed
    <3> QED
      BY <3>2 DEF AtServer
  <2> QED
    BY <2>1, <2>2
<1> QED
  BY <1>1, <1>2, <1>3, PTL DEF Spec

\* With a cache, the retry recovers, whatever Parse was rejected and whatever
\* was deallocated: no caller is told of a name that is missing or taken, but
\* for statements of which two calls overlapped, or whose plan was refused or
\* outdated while the name was in use.
THEOREM RecoveryCorrect == ASSUME CacheSize > 0 PROVE Spec => []NamesRecover
<1> DEFINE Inv == TypeInv /\ FlightInv /\ Untangled
<1>1. Init => Inv
  <2> SUFFICES ASSUME Init PROVE Inv
    OBVIOUS
  <2>1. TypeInv /\ FlightInv
    BY InitInvariants
  <2>2. /\ outbox = <<>> /\ answers = <<>> /\ schema = 0
        /\ status = [k \in Calls |-> "new"]
        /\ table = [s \in Stmts |-> None]
    BY DEF Init
  <2>3. Len(outbox) = 0 /\ Len(answers) = 0 /\ \A i \in 1 .. 0 : FALSE
    BY <2>2, EmptySeq
  <2>4. \A s \in Stmts : ~Left(outbox, table, sql, Len(outbox), s)
    BY <2>2, <2>3, LeftOfNothing
  <2> QED
    BY <2>1, <2>2, <2>3, <2>4 DEF Open, Untangled
<1>2. Inv /\ [Next]_vars => Inv'
  BY Types, Flights, UntangledKept
<1>3. Inv => NamesRecover
  BY DEF Untangled, NamesRecover
<1> QED
  BY <1>1, <1>2, <1>3, PTL DEF Spec
=============================================================================
