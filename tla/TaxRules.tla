------------------------------ MODULE TaxRules -------------------------------
(***************************************************************************)
(* Rules of the salary tax (utils/tax_rules.py) and the pages that change  *)
(* them and apply them to the payslips of a year (routes/tax.py).  The     *)
(* rules are rows of the table tax_rules, one for a year; every process of *)
(* the server keeps those it has used in a cache of its own, and clears    *)
(* that cache when it changes a rule.                                      *)
(*                                                                         *)
(* Money is counted in steps of a bracket, a rate in tax per step.         *)
(***************************************************************************)
EXTENDS Naturals, Sequences, FiniteSetsExt, Functions, UnitOfWork

CONSTANTS
  Processes,     \* processes of the server
  Sessions,      \* threads that handle requests, in any process
  Years,         \* years that payslips are of
  Current,       \* the current year
  None,          \* no row; not in the cache
  Default,       \* the rule in the code, for every year
  Forms,         \* rules an administrator may send
  Slips,         \* payslips
  YearOf,        \* year of each payslip
  Bases,         \* what a payslip may be taxed on: gross less insurance
  MaxRequests    \* bound: requests in one behaviour

VARIABLES
  table,   \* tax_rules: the row of each year
  cache,   \* _CACHE of each process
  slips,   \* payslips: paid or not, the base, the tax and the net amount
  heard,   \* history: processes that know of every change of the table
  req,     \* the request each thread is in
  served   \* number of requests begun

vars == <<table, cache, slips, heard, req, served>>

Idle == [op |-> "idle"]

-----------------------------------------------------------------------------
(* The tax of a month.                                                     *)

Smaller(a, b) == IF a < b THEN a ELSE b

(* What of an amount falls into a bracket.                                 *)
Slice(bracket, amount) ==
  LET upper == IF bracket.to = None THEN amount ELSE Smaller(amount, bracket.to)
  IN  IF upper <= bracket.from THEN 0 ELSE upper - bracket.from

Progressive(rule, amount) ==
  IF amount <= rule.exemption THEN 0
  ELSE SumFunction([i \in DOMAIN rule.brackets |->
                      Slice(rule.brackets[i], amount) * rule.brackets[i].rate])

(* A form's brackets in the order of their lower ends; one without an      *)
(* upper end goes up to the next, and the last has none.                   *)
Normalized(brackets) ==
  LET n == Len(brackets)
      up == CHOOSE s \in [1..n -> 1..n] :
              \A i, j \in 1..n : i < j =>
                /\ s[i] # s[j]
                /\ \/ brackets[s[i]].from < brackets[s[j]].from
                   \/ brackets[s[i]].from = brackets[s[j]].from /\ s[i] < s[j]
  IN [i \in 1..n |->
       [brackets[up[i]] EXCEPT
          !.to = IF i = n THEN None
                 ELSE IF @ = None THEN brackets[up[i + 1]].from ELSE @]]

RuleOf(form) == [form EXCEPT !.brackets = Normalized(@)]

(* The rule get_rule() reads: the row of the year, or else the default.    *)
Effective(row) == IF row = None THEN Default ELSE row

-----------------------------------------------------------------------------
(* Importing routes/tax.py asks for the rule of the current year, where    *)
(* there is no application yet and no database to ask: the default is used *)
(* and cached.                                                             *)
AtImport == [y \in Years |-> IF y = Current THEN Default ELSE None]

NotComputed(base) == [paid |-> FALSE, base |-> base, tax |-> 0, net |-> base]

Init ==
  /\ table = [y \in Years |-> None]
  /\ cache = [p \in Processes |-> AtImport]
  /\ slips \in [Slips -> {NotComputed(b) : b \in Bases}]
  /\ heard = Processes
  /\ req = [w \in Sessions |-> Idle]
  /\ served = 0

Begin(w, r) ==
  /\ req[w] = Idle
  /\ served < MaxRequests
  /\ req' = [req EXCEPT ![w] = r]
  /\ served' = served + 1

Finish(w) == req' = [req EXCEPT ![w] = Idle] /\ UNCHANGED served

InProcess(w, p) == req[w] # Idle /\ req[w].p = p

(* A process starts anew; its requests are lost.                           *)
Boot(p) ==
  /\ cache' = [cache EXCEPT ![p] = AtImport]
  /\ heard' = IF Effective(table[Current]) = Default THEN heard \cup {p}
              ELSE heard \ {p}
  /\ req' = [w \in Sessions |-> IF InProcess(w, p) THEN Idle ELSE req[w]]
  /\ UNCHANGED <<table, slips, served>>

-----------------------------------------------------------------------------
(* get_rule() in steps: the cache; if the year is not there, the row; then *)
(* the cache is filled, whatever happened to it meanwhile.                 *)

(* A page that shows a rule.                                               *)
BeginShow(w, p, y) ==
  /\ cache[p][y] = None
  /\ Begin(w, [op |-> "show", p |-> p, y |-> y, rule |-> Effective(table[y])])
  /\ UNCHANGED <<table, cache, slips, heard>>

Fill(w) ==
  LET r == req[w] IN
  /\ r.op = "show"
  /\ cache' = [cache EXCEPT ![r.p][r.y] = r.rule]
  /\ Finish(w)
  /\ UNCHANGED <<table, slips, heard>>

-----------------------------------------------------------------------------
(* save_tax_rules() and delete_tax_rule(): load the row, clear the cache   *)
(* of the process, commit.                                                 *)

(* Fault: the cache is kept.                                               *)
KeepCache(p) == UNCHANGED cache

Invalidate(p) == cache' = [cache EXCEPT ![p] = [y \in Years |-> None]]

BeginSave(w, p, y, form) ==
  /\ Begin(w, [op |-> "save", p |-> p, y |-> y, rule |-> RuleOf(form),
               loaded |-> table[y]])
  /\ Invalidate(p)
  /\ UNCHANGED <<table, slips, heard>>

(* A second row of the year, or a row that is gone, fails the request.     *)
CommitSave(w) ==
  LET r == req[w] IN
  /\ r.op = "save"
  /\ (table[r.y] = None) = (r.loaded = None)
  /\ table' = [table EXCEPT ![r.y] =
       IF @ = None THEN r.rule ELSE Flush(@, r.loaded, r.rule)]
  /\ heard' = {r.p}
  /\ Finish(w)
  /\ UNCHANGED <<cache, slips>>

BeginDelete(w, p, y) ==
  /\ table[y] # None
  /\ Begin(w, [op |-> "delete", p |-> p, y |-> y])
  /\ Invalidate(p)
  /\ UNCHANGED <<table, slips, heard>>

CommitDelete(w) ==
  LET r == req[w] IN
  /\ r.op = "delete"
  /\ table[r.y] # None
  /\ table' = [table EXCEPT ![r.y] = None]
  /\ heard' = {r.p}
  /\ Finish(w)
  /\ UNCHANGED <<cache, slips>>

-----------------------------------------------------------------------------
(* auto_calculate(): loads the payslips of a year, gives those not paid    *)
(* the tax of the rule in force, commits.                                  *)

BeginCalculate(w, p, y) ==
  /\ Begin(w, [op |-> "calculate", p |-> p, y |-> y, loaded |-> slips,
               todo |-> {s \in Slips : YearOf[s] = y /\ ~slips[s].paid},
               tax |-> [s \in {} |-> 0]])
  /\ UNCHANGED <<table, cache, slips, heard>>

(* The tax of one payslip.  A rule that is not in the cache is read from   *)
(* the table and put there; with the tax of an earlier payslip set, that   *)
(* query flushes, and keeps the write lock.                                *)
Calculate(w, s) ==
  LET r == req[w]
      rule == IF cache[r.p][r.y] # None THEN cache[r.p][r.y] ELSE Effective(table[r.y])
  IN
  /\ r.op = "calculate" /\ s \in r.todo
  /\ cache' = [cache EXCEPT ![r.p][r.y] = rule]
  /\ req' = [req EXCEPT ![w].todo = @ \ {s},
                        ![w].tax = [t \in DOMAIN @ \cup {s} |->
                          IF t = s THEN Progressive(rule, r.loaded[s].base) ELSE @[t]]]
  /\ UNCHANGED <<table, slips, heard, served>>

CommitCalculate(w) ==
  LET r == req[w]
      Taxed(s) == [r.loaded[s] EXCEPT !.tax = r.tax[s], !.net = r.loaded[s].base - r.tax[s]]
  IN
  /\ r.op = "calculate" /\ r.todo = {}
  /\ slips' = [s \in Slips |->
       IF s \in DOMAIN r.tax THEN Flush(slips[s], r.loaded[s], Taxed(s)) ELSE slips[s]]
  /\ Finish(w)
  /\ UNCHANGED <<table, cache, heard>>

-----------------------------------------------------------------------------
(* What the payroll does to a payslip meanwhile: it is paid, its payment   *)
(* is cancelled, it is computed anew from another base.                    *)

Pay(s) ==
  /\ slips' = [slips EXCEPT ![s].paid = ~@]
  /\ UNCHANGED <<table, cache, heard, req, served>>

Recompute(s, base) ==
  /\ ~slips[s].paid
  /\ slips' = [slips EXCEPT ![s].base = base, ![s].net = base - slips[s].tax]
  /\ UNCHANGED <<table, cache, heard, req, served>>

(* The request ends without a commit; a cleared cache stays clear.         *)
Abort(w) ==
  /\ req[w] # Idle
  /\ Finish(w)
  /\ UNCHANGED <<table, cache, slips, heard>>

Next ==
  \/ \E p \in Processes : Boot(p)
  \/ \E w \in Sessions, p \in Processes, y \in Years : BeginShow(w, p, y)
  \/ \E w \in Sessions : Fill(w)
  \/ \E w \in Sessions, p \in Processes, y \in Years, form \in Forms :
       BeginSave(w, p, y, form)
  \/ \E w \in Sessions : CommitSave(w)
  \/ \E w \in Sessions, p \in Processes, y \in Years : BeginDelete(w, p, y)
  \/ \E w \in Sessions : CommitDelete(w)
  \/ \E w \in Sessions, p \in Processes, y \in Years : BeginCalculate(w, p, y)
  \/ \E w \in Sessions, s \in Slips : Calculate(w, s)
  \/ \E w \in Sessions : CommitCalculate(w)
  \/ \E s \in Slips : Pay(s)
  \/ \E s \in Slips, base \in Bases : Recompute(s, base)
  \/ \E w \in Sessions : Abort(w)

Spec == Init /\ [][Next]_vars

-----------------------------------------------------------------------------
(***************************************************************************)
(* Properties.                                                             *)
(***************************************************************************)

(* The tax by its definition: every step of the amount above the exemption *)
(* costs the rates of the brackets it lies in.                             *)
LegalTax(rule, amount) ==
  IF amount <= rule.exemption THEN 0
  ELSE LET rates(u) == {i \in DOMAIN rule.brackets :
                          /\ rule.brackets[i].from < u
                          /\ rule.brackets[i].to # None => u <= rule.brackets[i].to}
       IN SumFunction([u \in 1..amount |->
                         SumFunction([i \in rates(u) |-> rule.brackets[i].rate])])

(* A calculation in a process that has heard of the last change of a rule  *)
(* leaves the payslips that are paid alone and gives the others of its     *)
(* year the legal tax by the table's rule (to be asked where no other      *)
(* request came in between).                                               *)
CalculatedByTheTable(w) ==
  LET r == req[w] IN
  (req[w] # Idle /\ r.op = "calculate" /\ r.p \in heard /\ slips' # slips /\ req'[w] = Idle)
  => \A s \in Slips :
       IF YearOf[s] = r.y /\ ~slips[s].paid
       THEN LET tax == LegalTax(Effective(table[r.y]), slips[s].base)
            IN slips'[s] = [slips[s] EXCEPT !.tax = tax, !.net = slips[s].base - tax]
       ELSE slips'[s] = slips[s]

(* Where the table has a row of a year, the rule a process works with is   *)
(* that row (utils/tax_rules.py:13).                                       *)
RuleFromTable ==
  \A p \in Processes, y \in Years :
    cache[p][y] # None /\ table[y] # None => cache[p][y] = table[y]
=============================================================================
