--------------------------------- MODULE Weather ---------------------------------
(***************************************************************************)
(* The weather of the past week (weather/weather.cc), one entry for each   *)
(* hour of each day of the week, which an application fetches every hour   *)
(* or not, and the irrigation factor made of it                            *)
(* (weather/weather_irrigation.cc).  A weather is the hour it is of, hours *)
(* are counted from the first one of a day 0; what is left out is what the *)
(* weather is like.  Every answer of the provider is complete.             *)
(***************************************************************************)
EXTENDS Integers, SequencesExt, FiniteSetsExt

CONSTANTS
  Days, Hours,        \* the days of a week and the hours of a day
  FromHour, ToHour,   \* from_hour and to_hour, two hours of the day
  NoWeather,          \* an empty weather_data
  NoFactor,
  MaxHours            \* bound: how long the application runs

VARIABLES
  now,
  m_past_wd,
  store,    \* the entries of the key/value store
  factor    \* the last factor: the hours asked for, the weathers it was made of, and when

vars == <<now, m_past_wd, store, factor>>

WeekDay(h) == (h \div Hours) % Days
Hour(h) == h % Hours
Entries == (0 .. Days - 1) \X (0 .. Hours - 1)

Init ==
  /\ now \in 0 .. Hours - 1
  /\ m_past_wd = [e \in Entries |-> NoWeather]
  /\ store = [e \in Entries |-> NoWeather]
  /\ factor = NoFactor

HourPasses ==
  /\ now < MaxHours
  /\ now' = now + 1
  /\ UNCHANGED <<m_past_wd, store, factor>>

\* fetch_and_store_weather_data: if the provider fails the entry is left as it was a week ago.
Fetch(stored) ==
  LET here == <<WeekDay(now), Hour(now)>>
  IN  /\ m_past_wd' = [m_past_wd EXCEPT ![here] = now]
      /\ store' = IF stored THEN [store EXCEPT ![here] = now] ELSE store
      /\ UNCHANGED <<now, factor>>

\* The program is started again and calls load_past_weather_data, which leaves out what is
\* older than a week.
Restart ==
  /\ m_past_wd' = [e \in Entries |->
       IF store[e] # NoWeather /\ store[e] >= now - Days * Hours THEN store[e] ELSE NoWeather]
  /\ factor' = NoFactor
  /\ UNCHANGED <<now, store>>

\* The two loops of get_simple_irrigation_factor: the inner one counts the hours down and ends
\* the outer one, so that the week day is that of now throughout.
Used(hours) ==
  LET visited == [k \in 1 .. Min({hours, Days * Hours}) |-> Hour(now - k + 1 + Days * Hours)]
      use(used, h) ==
        IF FromHour <= h /\ h <= ToHour /\ m_past_wd[<<WeekDay(now), h>>] # NoWeather
        THEN Append(used, m_past_wd[<<WeekDay(now), h>>]) ELSE used
  IN  FoldLeft(use, <<>>, visited)

GetFactor(hours) ==
  /\ factor' = [hours |-> hours, used |-> Used(hours), at |-> now]
  /\ UNCHANGED <<now, m_past_wd, store>>

Next ==
  \/ HourPasses
  \/ \E stored \in BOOLEAN : Fetch(stored)
  \/ Restart
  \/ \E hours \in {Hours, Days * Hours} : GetFactor(hours)

Spec == Init /\ [][Next]_vars

\* The factor is made of the weathers of the hours asked for and of none twice: "hours in the
\* past we use" (weather_irrigation.hh:18).
FactorOfPastHours ==
  factor # NoFactor =>
    /\ \A i \in DOMAIN factor.used : factor.used[i] > factor.at - factor.hours
    /\ \A i, j \in DOMAIN factor.used : i # j => factor.used[i] # factor.used[j]
================================================================================
