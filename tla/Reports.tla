------------------------------ MODULE Reports ------------------------------
(***************************************************************************)
(* The report service's arithmetic and the figures of the report endpoints  *)
(* and pages. Times are whole hours, a day is 24 of them (the server's time *)
(* zone is UTC), an average or a rate is in tenths, a percentile in         *)
(* hundredths. A ticket is a record [id, at, agent, policy, flag, firstDue,  *)
(* due, first, resolved, dept, open]; 0 stands for NULL in a time and for no *)
(* agent, policy or department. A rating is [ticket, score, at].            *)
(***************************************************************************)
EXTENDS Integers, Sequences, FiniteSets
LOCAL INSTANCE FiniteSetsExt

Null == 0
Total(S, f(_)) == MapThenSumSet(f, S)

\* math.Round(a / b * scale), for what is not negative.
Rounded(a, b) == (2 * a + b) \div (2 * b)
round1(a, b) == Rounded(10 * a, b)
mean(f) == IF DOMAIN f = {} THEN 0 ELSE round1(Total(DOMAIN f, LAMBDA i : f[i]), Cardinality(DOMAIN f))
pct(part, whole) == IF whole = 0 THEN 0 ELSE Rounded(1000 * part, whole)
-----------------------------------------------------------------------------
(* services/reporting_service.go                                            *)

\* A function's values in order: sorted(f)[k], k from 1.
sorted(f) ==
  [k \in 1..Cardinality(DOMAIN f) |->
    CHOOSE v \in {f[i] : i \in DOMAIN f} :
      /\ Cardinality({i \in DOMAIN f : f[i] < v}) < k
      /\ Cardinality({i \in DOMAIN f : f[i] <= v}) >= k]

percentileValue(s, p) ==
  LET k == p * (Len(s) - 1)
      f == (k \div 100) + 1
  IN  IF k % 100 = 0 THEN 100 * s[f]
      ELSE Rounded(100 * (100 * s[f] + (k % 100) * (s[f + 1] - s[f])), 100)

Points == <<50, 75, 90, 95, 99>>
CalculatePercentiles(f) == [i \in 1..5 |-> IF DOMAIN f = {} THEN 0 ELSE percentileValue(sorted(f), Points[i])]

\* The buckets [from, to) that hold a value, with how many they hold.
BuildDistribution(f) ==
  IF DOMAIN f = {} THEN {}
  ELSE LET top == sorted(f)[Cardinality(DOMAIN f)]
           size == Max({(top + 9) \div 10, 1})
           buckets == {[from |-> size * i, to |-> size * (i + 1),
                        count |-> Cardinality({k \in DOMAIN f : f[k] >= size * i /\ f[k] < size * (i + 1)})] : i \in 0..(top \div size)}
       IN  {b \in buckets : b.count > 0}

\* Out of 1000: resolution rate and the averages, in tenths; a figure that is
\* missing (-1), or an average of no time, carries no weight.
CompositeScore(rate, frt, res, csat) ==
  LET score == 216 * rate + (IF frt > 0 THEN Max({240 - frt, 0}) * 750 ELSE 0)
                 + (IF res > 0 THEN Max({720 - res, 0}) * 250 ELSE 0) + (IF csat >= 0 THEN 2880 * csat ELSE 0)
      weights == 30 + (IF frt > 0 THEN 25 ELSE 0) + (IF res > 0 THEN 25 ELSE 0) + (IF csat >= 0 THEN 20 ELSE 0)
  IN  Rounded(1000 * score, 7200 * weights)

DateSeries(from, to) == [i \in 1..Min({((to - from) \div 24) + 1, 90}) |-> from + 24 * (i - 1)]
Day(at) == at \div 24

CalculateChanges(current, previous) ==
  IF previous = 0 THEN (IF current > 0 THEN 1000 ELSE 0)
  ELSE IF current >= previous THEN Rounded(1000 * (current - previous), previous)
  ELSE -Rounded(1000 * (previous - current), previous)
-----------------------------------------------------------------------------
(* handlers/report.go: the JSON reports                                     *)

ticketsIn(tickets, start, end, inclusive) ==
  {t \in tickets : t.at >= start /\ (t.at < end \/ (inclusive /\ t.at = end))}
ratingsIn(ratings, start, end) == {r \in ratings : r.at >= start /\ r.at <= end}

InOrder(from, to) == to # Null /\ to >= from
Spans(S, when(_)) == [t \in {u \in S : InOrder(u.at, when(u))} |-> when(t) - t.at]
frtHours(S) == Spans(S, LAMBDA t : t.first)
resolutionHours(S) == Spans(S, LAMBDA t : t.resolved)
ratingAverage(R) == mean([r \in R |-> r.score])
OrMissing(f, v) == IF DOMAIN f = {} THEN -1 ELSE v

slaComplianceRate(S) ==
  LET bound == {t \in S : t.policy # Null}
  IN  IF bound = {} THEN 1000 ELSE pct(Cardinality({t \in bound : ~t.flag}), Cardinality(bound))

Resolved(S) == {t \in S : t.resolved # Null}

Index(tickets, ratings, days, now) ==
  LET S == ticketsIn(tickets, now - 24 * days, now, TRUE)
      dates == DateSeries(now - 24 * days, now)
  IN  [total |-> Cardinality(S), resolved |-> Cardinality(Resolved(S)), frt |-> mean(frtHours(S)),
       resolution |-> mean(resolutionHours(S)), compliance |-> slaComplianceRate(S),
       csat |-> ratingAverage(ratingsIn(ratings, now - 24 * days, now)),
       volume |-> [i \in DOMAIN dates |-> Cardinality({t \in S : Day(t.at) = Day(dates[i])})]]

Agents(S) == {t.agent : t \in S} \ {Null}

\* A row per agent with a ticket in the period; a rating counts for the
\* ticket's agent when the ticket is in the period too.
AgentRows(S, R) ==
  {LET mine == {t \in S : t.agent = a}
       rated == {r \in R : \E t \in mine : t.id = r.ticket}
       rate == pct(Cardinality(Resolved(mine)), Cardinality(mine))
   IN  [agent |-> a, total |-> Cardinality(mine), resolved |-> Cardinality(Resolved(mine)), rate |-> rate,
        score |-> CompositeScore(rate, OrMissing(frtHours(mine), mean(frtHours(mine))),
                                 OrMissing(resolutionHours(mine), mean(resolutionHours(mine))),
                                 OrMissing([r \in rated |-> r.score], ratingAverage(rated)))] : a \in Agents(S)}

AgentRanking(tickets, ratings, days, now) ==
  LET rows == AgentRows(ticketsIn(tickets, now - 24 * days, now, TRUE), ratingsIn(ratings, now - 24 * days, now))
      Above(x, y) == x.score > y.score \/ (x.score = y.score /\ x.agent < y.agent)
  IN  [k \in 1..Cardinality(rows) |-> CHOOSE x \in rows : Cardinality({y \in rows : Above(y, x)}) = k - 1]

SLA(tickets, days, now) ==
  LET S == ticketsIn(tickets, now - 24 * days, now, TRUE)
      bound == {t \in S : t.policy # Null}
  IN  [total |-> Cardinality(bound), breaches |-> {t.id : t \in {u \in bound : u.flag}}, compliance |-> slaComplianceRate(S)]

CSAT(tickets, ratings, days, now) ==
  LET R == ratingsIn(ratings, now - 24 * days, now)
      n == Cardinality(ticketsIn(tickets, now - 24 * days, now, TRUE))
  IN  [average |-> ratingAverage(R), rate |-> pct(Cardinality(R), n), total |-> Cardinality(R),
       breakdown |-> [s \in {r.score : r \in R} |-> Cardinality({r \in R : r.score = s})]]

periodStats(tickets, start, end) ==
  LET S == ticketsIn(tickets, start, end, FALSE)
  IN  [created |-> Cardinality(S), resolved |-> Cardinality(Resolved(S)), rate |-> pct(Cardinality(Resolved(S)), Cardinality(S)),
       breaches |-> Cardinality({t \in S : t.policy # Null /\ t.flag})]

PeriodComparison(tickets, days, now) ==
  LET current == periodStats(tickets, now - 24 * days, now)
      previous == periodStats(tickets, now - 48 * days, now - 24 * days)
  IN  [current |-> current, previous |-> previous,
       changes |-> [k \in {"created", "resolved", "rate"} |-> CalculateChanges(current[k], previous[k])]]
-----------------------------------------------------------------------------
(* handlers/report_pages.go: the pages. Their breaches are read off the due  *)
(* dates, and the flag.                                                     *)

Late(due, done, now) == due # Null /\ (IF done # Null THEN done > due ELSE now > due)
firstResponseBreach(t, now) == Late(t.firstDue, t.first, now)
resolutionBreach(t, now) == Late(t.due, t.resolved, now)
breached(t, now) == t.flag \/ firstResponseBreach(t, now) \/ resolutionBreach(t, now)

pageTickets(tickets, since) == {t \in tickets : t.at >= since}
pageRatings(ratings, since) == {r \in ratings : r.at >= since /\ r.score > 0}
within(S, from, to) == {t \in S : t.at >= from /\ t.at < to}
volumeByDate(S, from, to) ==
  [d \in {Day(t.at) : t \in within(S, from, to)} |-> Cardinality({t \in within(S, from, to) : Day(t.at) = d})]

slaCompliance(S, now) ==
  LET bound == {t \in S : t.policy # Null}
  IN  IF bound = {} THEN 1000 ELSE pct(Cardinality({t \in bound : ~breached(t, now)}), Cardinality(bound))

Groups(S, key(_)) == [k \in {key(t) : t \in S} |-> {t \in S : key(t) = k}]

\* By how many tickets an agent has, the busiest first.
agentPerformance(S) ==
  LET by == Groups({t \in S : t.agent # Null}, LAMBDA t : t.agent)
      Above(a, b) == Cardinality(by[a]) > Cardinality(by[b]) \/ (Cardinality(by[a]) = Cardinality(by[b]) /\ a < b)
      ids == [k \in 1..Cardinality(DOMAIN by) |-> CHOOSE a \in DOMAIN by : Cardinality({b \in DOMAIN by : Above(b, a)}) = k - 1]
  IN  [k \in DOMAIN ids |->
        [agent |-> ids[k], total |-> Cardinality(by[ids[k]]), resolved |-> Cardinality(Resolved(by[ids[k]])),
         frt |-> mean(frtHours(by[ids[k]])), resolution |-> mean(resolutionHours(by[ids[k]]))]]

OverviewPage(tickets, days, now) ==
  LET S == pageTickets(tickets, now - 24 * days)
  IN  [total |-> Cardinality(S), resolved |-> Cardinality(Resolved(S)), frt |-> mean(frtHours(S)),
       breaches |-> Cardinality({t \in S : breached(t, now)})]

DashboardPage(tickets, days, now) ==
  LET S == pageTickets(tickets, now - 24 * days)
  IN  [volume |-> volumeByDate(S, now - 24 * days, now + 1), compliance |-> slaCompliance(S, now), agents |-> agentPerformance(S),
       resolution |-> mean(resolutionHours(S))]

SLAPage(tickets, days, now) ==
  LET S == pageTickets(tickets, now - 24 * days)
      by == Groups({t \in S : t.policy # Null}, LAMBDA t : t.policy)
  IN  [compliance |-> slaCompliance(S, now),
       policies |-> [p \in DOMAIN by |-> [total |-> Cardinality(by[p]), met |-> Cardinality({t \in by[p] : ~breached(t, now)}),
                                          breached |-> Cardinality({t \in by[p] : breached(t, now)})]],
       breaches |-> {[id |-> t.id, first |-> firstResponseBreach(t, now),
                      resolution |-> resolutionBreach(t, now) \/ (t.flag /\ ~firstResponseBreach(t, now))] :
                       t \in {u \in S : breached(u, now)}}]

CSATPage(tickets, ratings, days, now) ==
  LET S == pageTickets(tickets, now - 24 * days)
      R == pageRatings(ratings, now - 24 * days)
      Of(r) == (CHOOSE t \in tickets : t.id = r.ticket).agent
  IN  [average |-> ratingAverage(R), rate |-> pct(Cardinality(R), Cardinality(S)), total |-> Cardinality(R),
       agents |-> [a \in {Of(r) : r \in R} \ {Null} |-> [count |-> Cardinality({r \in R : Of(r) = a}),
                                                         rating |-> ratingAverage({r \in R : Of(r) = a})]],
       days |-> [d \in {Day(r.at) : r \in R} |-> ratingAverage({r \in R : Day(r.at) = d})]]

\* A bucket is [from, to), the last one without an end (-1).
frtBuckets == <<<<0, 1>>, <<1, 4>>, <<4, 8>>, <<8, 24>>, <<24, -1>>>>
resolutionBuckets == <<<<0, 4>>, <<4, 8>>, <<8, 24>>, <<24, 72>>, <<72, 168>>, <<168, -1>>>>
histogram(f, buckets) ==
  [b \in DOMAIN buckets |-> Cardinality({i \in DOMAIN f : f[i] >= buckets[b][1] /\ (buckets[b][2] < 0 \/ f[i] < buckets[b][2])})]

timeScreen(S, f, target, buckets) ==
  LET seen == DOMAIN f
      Averages(key(_)) == [k \in {key(t) : t \in seen} |-> mean([t \in {u \in seen : key(u) = k} |-> f[t]])]
  IN  [avg |-> mean(f), median |-> Rounded(CalculatePercentiles(f)[1], 10), p90 |-> Rounded(CalculatePercentiles(f)[3], 10),
       under |-> pct(Cardinality({t \in seen : f[t] <= target}), Cardinality(seen)), distribution |-> histogram(f, buckets),
       trend |-> Averages(LAMBDA t : Day(t.at)), departments |-> Averages(LAMBDA t : t.dept),
       agents |-> [a \in Agents(seen) |-> Cardinality({t \in seen : t.agent = a})]]
ResponseTimesPage(tickets, days, now) ==
  LET S == pageTickets(tickets, now - 24 * days) IN timeScreen(S, frtHours(S), 4, frtBuckets)
ResolutionTimesPage(tickets, days, now) ==
  LET S == pageTickets(tickets, now - 24 * days) IN timeScreen(S, resolutionHours(S), 24, resolutionBuckets)

\* A rating counts for the agent who has the ticket now, if the agent has a
\* ticket of the period. Ties keep the order the map gave: any.
AgentRankingPage(tickets, ratings, days, now) ==
  LET S == pageTickets(tickets, now - 24 * days)
      R == pageRatings(ratings, now - 24 * days)
  IN  {LET mine == {t \in S : t.agent = a}
           rated == {r \in R : \E t \in tickets : t.id = r.ticket /\ t.agent = a}
           rate == pct(Cardinality(Resolved(mine)), Cardinality(mine))
       IN  [agent |-> a, total |-> Cardinality(mine), rate |-> rate,
            score |-> CompositeScore(rate, OrMissing(frtHours(mine), mean(frtHours(mine))),
                                     OrMissing(resolutionHours(mine), mean(resolutionHours(mine))),
                                     OrMissing([r \in rated |-> r.score], ratingAverage(rated)))] : a \in Agents(S)}

\* keys: the groups a ticket is in (its tags; its department, type, priority).
Cohort(S, R, keys(_), now) ==
  [k \in UNION {keys(t) : t \in S} |->
    LET mine == {t \in S : k \in keys(t)}
    IN  [volume |-> Cardinality(mine), resolution |-> mean(resolutionHours(mine)),
         breaches |-> pct(Cardinality({t \in mine : breached(t, now)}), Cardinality(mine)),
         csat |-> ratingAverage({r \in R : \E t \in mine : t.id = r.ticket})]]
CohortsPage(tickets, ratings, days, now) ==
  LET S == pageTickets(tickets, now - 24 * days)
      R == pageRatings(ratings, now - 24 * days)
  IN  [departments |-> Cohort(S, R, LAMBDA t : {t.dept}, now), tags |-> Cohort(S, R, LAMBDA t : t.tags, now)]

ComparisonPage(tickets, ratings, days, now) ==
  LET all == pageTickets(tickets, now - 48 * days)
      Side(from, to) ==
        LET S == within(all, from, to)
        IN  [total |-> Cardinality(S), resolved |-> Cardinality(DOMAIN resolutionHours(S)), compliance |-> slaCompliance(S, now),
             breaches |-> Cardinality({t \in S : breached(t, now)}), volume |-> volumeByDate(S, from, to),
             csat |-> ratingAverage({r \in pageRatings(ratings, now - 48 * days) : r.at >= from /\ r.at < to})]
  IN  [current |-> Side(now - 24 * days, now + 1), previous |-> Side(now - 48 * days, now - 24 * days)]

dueIfPending(due, done) == IF done # Null THEN Null ELSE due

\* At risk: open, not breached, and due within eight hours.
SLATrendsPage(tickets, days, now) ==
  LET S == pageTickets(tickets, now - 24 * days)
      fb(t) == firstResponseBreach(t, now)
      rb(t) == resolutionBreach(t, now) \/ (t.flag /\ ~fb(t))
      late == {t \in S : fb(t) \/ rb(t)}
      soon(t) == {d \in {dueIfPending(t.firstDue, t.first), dueIfPending(t.due, t.resolved)} : d > now /\ d < now + 8}
      risk == {t \in S \ late : t.open /\ soon(t) # {}}
      by == Groups(late, LAMBDA t : Day(t.at))
      depts == Groups(S, LAMBDA t : t.dept)
  IN  [total |-> Cardinality(late), rate |-> pct(Cardinality(late), Cardinality(S)),
       first |-> Cardinality({t \in late : fb(t)}), resolution |-> Cardinality({t \in late : rb(t)}),
       trend |-> [d \in DOMAIN by |-> Cardinality(by[d])],
       departments |-> [d \in DOMAIN depts |-> pct(Cardinality(depts[d] \cap late), Cardinality(depts[d]))],
       atRisk |-> {[id |-> t.id, left |-> 10 * (Min(soon(t)) - now)] : t \in risk}]

\* handlers/report_agent_detail.go: one agent, two periods.
AgentDetail(tickets, replies, agent, days, now) ==
  LET theirs == {t \in pageTickets(tickets, now - 48 * days) : t.agent = agent}
      mine == within(theirs, now - 24 * days, now + 1)
      previous == within(theirs, now - 48 * days, now - 24 * days)
      written == {r \in replies : r.by = agent /\ r.at >= now - 24 * days /\ r.at < now + 1}
      resolved == {t \in mine : t.resolved # Null /\ t.resolved >= now - 24 * days /\ t.resolved <= now}
  IN  [total |-> Cardinality(mine), prev |-> Cardinality(previous),
       productivity |-> [d \in {Day(r.at) : r \in written} \cup {Day(t.resolved) : t \in resolved} |->
          <<Cardinality({r \in written : Day(r.at) = d}), Cardinality({t \in resolved : Day(t.resolved) = d})>>],
       workload |-> volumeByDate(theirs, now - 24 * days, now + 1)]
-----------------------------------------------------------------------------
(* What the figures promise each other                                      *)

SumOf(f) == Total(DOMAIN f, LAMBDA k : f[k])

NumbersSay(f) ==
  LET p == CalculatePercentiles(f)
      low == 100 * sorted(f)[1]
      high == 100 * sorted(f)[Cardinality(DOMAIN f)]
  IN  DOMAIN f # {} =>
        /\ \A i \in 1..5 : p[i] >= low /\ p[i] <= high
        /\ \A i \in 1..4 : p[i] <= p[i + 1]
        /\ SumOf([b \in BuildDistribution(f) |-> b.count]) = Cardinality(DOMAIN f)
        /\ SumOf(histogram(f, frtBuckets)) = Cardinality(DOMAIN f)
        /\ SumOf(histogram(f, resolutionBuckets)) = Cardinality(DOMAIN f)

\* A score is between 0 and 100, and no better figure lowers it.
ScoreSays(rate, frt, res, csat) ==
  LET s == CompositeScore(rate, frt, res, csat)
  IN  /\ s \in 0..1000
      /\ \A r \in {rate + 100, 1000} : r <= 1000 => CompositeScore(r, frt, res, csat) >= s
      /\ frt > 10 => CompositeScore(rate, frt - 10, res, csat) >= s
      /\ res > 10 => CompositeScore(rate, frt, res - 10, csat) >= s
      /\ csat \in 0..40 => CompositeScore(rate, frt, res, csat + 10) >= s

\* Every ticket is counted once wherever it is counted, and the screens agree
\* on what is late.
ReportSays(tickets, ratings, days, now) ==
  LET json == Index(tickets, ratings, days, now)
      page == OverviewPage(tickets, days, now)
      sla == SLAPage(tickets, days, now)
      trends == SLATrendsPage(tickets, days, now)
      both == ComparisonPage(tickets, ratings, days, now)
      periods == PeriodComparison(tickets, days, now)
      rank == AgentRanking(tickets, ratings, days, now)
      board == DashboardPage(tickets, days, now)
  IN  /\ json.total = page.total /\ json.frt = page.frt
      /\ days < 90 => SumOf(json.volume) = json.total
      /\ SumOf(board.volume) = page.total
      /\ page.breaches = Cardinality(sla.breaches) /\ page.breaches = trends.total
      /\ \A b \in sla.breaches : b.first \/ b.resolution
      /\ SumOf(trends.trend) = trends.total
      /\ trends.first + trends.resolution >= trends.total
      /\ trends.atRisk = {} \/ {r.id : r \in trends.atRisk} \cap {b.id : b \in sla.breaches} = {}
      /\ \A p \in DOMAIN sla.policies : sla.policies[p].met + sla.policies[p].breached = sla.policies[p].total
      /\ SLA(tickets, days, now).breaches \subseteq {b.id : b \in sla.breaches}
      /\ both.current.total + both.previous.total = Cardinality(pageTickets(tickets, now - 48 * days))
      /\ both.current.total = page.total /\ both.current.compliance = sla.compliance
      /\ periods.current.created + periods.previous.created
           = Cardinality({t \in tickets : t.at >= now - 48 * days /\ t.at < now})
      /\ \A i \in DOMAIN rank : rank[i].score \in 0..1000 /\ (i > 1 => rank[i - 1].score >= rank[i].score)
      /\ {rank[i].agent : i \in DOMAIN rank} = {board.agents[i].agent : i \in DOMAIN board.agents}
      /\ SumOf([i \in DOMAIN rank |-> rank[i].total]) = Cardinality({t \in pageTickets(tickets, now - 24 * days) : t.agent # Null})
      /\ Len(rank) = Cardinality(AgentRankingPage(tickets, ratings, days, now))
      /\ SumOf([d \in DOMAIN CohortsPage(tickets, ratings, days, now).departments |->
                  CohortsPage(tickets, ratings, days, now).departments[d].volume]) = page.total
      /\ SumOf(CSAT(tickets, ratings, days, now).breakdown) = CSAT(tickets, ratings, days, now).total
      /\ CSATPage(tickets, ratings, days, now).average = CSAT(tickets, ratings, days, now).average
      /\ SumOf(ResponseTimesPage(tickets, days, now).distribution) = Cardinality(DOMAIN frtHours(pageTickets(tickets, now - 24 * days)))
      /\ ResolutionTimesPage(tickets, days, now).avg = board.resolution

\* What an agent wrote and resolved is on one day each.
DetailSays(tickets, replies, agent, days, now) ==
  LET d == AgentDetail(tickets, replies, agent, days, now)
  IN  /\ SumOf(d.workload) = d.total
      /\ SumOf([k \in DOMAIN d.productivity |-> d.productivity[k][1]])
           = Cardinality({r \in replies : r.by = agent /\ r.at >= now - 24 * days /\ r.at <= now})
      /\ SumOf([k \in DOMAIN d.productivity |-> d.productivity[k][2]]) <= d.total
=============================================================================
