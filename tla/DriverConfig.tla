---------------------------- MODULE DriverConfig ----------------------------
(***************************************************************************)
(* Loading the driver table: at start-up and at every SIGHUP the rows of   *)
(* load_lnp_databases() become driver objects, and the map of the drivers  *)
(* is replaced when all of them could be made.                             *)
(*                                                                         *)
(* The columns of the table depend on the version of the database: the     *)
(* format is detected from them once and kept in a static variable.  A row *)
(* is the state of its cells ("ok", "null", "empty", "wrong" for another   *)
(* type, "absent", "outside" for a number its type cannot hold); every     *)
(* good cell of a row holds the row's own value v.                         *)
(***************************************************************************)
EXTENDS Integers, Sequences, FiniteSets

CONSTANTS
  Tables,      \* results the database may return: sequences of rows
  Values,      \* texts that cells hold, other than the empty one
  MaxLoads,    \* bound on loads
  PortMod,     \* values of uint16_t
  TimeoutMod,  \* values of uint32_t
  Default,     \* defaultTimeout
  Throw,       \* an exception in place of a value
  Unset        \* a member that no constructor sets

ASSUME BoundAssumption == MaxLoads \in Nat
ASSUME ModAssumption == PortMod \in Nat \ {0} /\ TimeoutMod \in Nat \ {0} /\ Default \in 0 .. TimeoutMod - 1

VARIABLES
  phase,        \* main(): "starting", "serving" or "ended"
  sConfigType,  \* the format that was detected
  sip,          \* static data of the SIP driver and state of the SIP client
  mDriversMap,  \* the drivers in use, by unique id
  exporter,     \* the exporter could bind its address: the families exist
  series,       \* <<type, id>> of the metrics that were added
  load,         \* the load that is under way
  loads         \* loads begun

vars == <<phase, sConfigType, sip, mDriversMap, exporter, series, load, loads>>

-----------------------------------------------------------------------------
(***************************************************************************)
(* Formats and columns.                                                    *)
(***************************************************************************)
ECONFIG_DATA_INVALID == 0
ECONFIG_DATA_AS_SEPARATE_COLUMN_V1 == 1
ECONFIG_DATA_AS_SEPARATE_COLUMN_V2 == 2
ECONFIG_DATA_AS_JSON_STRING == 3

Formats == ECONFIG_DATA_INVALID .. ECONFIG_DATA_AS_JSON_STRING

ECDriverId == [NULL |-> 0, SIP |-> 1, HTTP_THINQ |-> 2, MHASH_CSV |-> 3, HTTP_ALCAZAR |-> 4,
               HTTP_COUREANQ |-> 5, CNAM_HTTP |-> 6, HTTP_BULKVS |-> 7, MAX_ID |-> 8]

V1Columns == {"o_id", "o_name", "o_driver_id", "o_host", "o_port", "o_timeout",
              "o_thinq_username", "o_thinq_token", "o_csv_file"}

\* Columns of load_lnp_databases() in the versions of the database.
Columns == <<V1Columns,
             V1Columns \union {"o_alkazar_key"},
             {"id", "name", "database_type", "parameters"},
             {"id", "name", "database_type"}>>

column(r, c) == IF c \in Columns[r.schema] THEN r.cell[c] ELSE "absent"

\* Columns that hold a text: their type is the database's.
TextColumns == {"name", "o_name", "o_host", "o_thinq_username", "o_thinq_token", "o_csv_file",
                "o_alkazar_key"}

\* A row of load_lnp_databases(): the type is 0 when none is given, MAX_ID
\* stands for every one that is not in the list, and n is a number that both of
\* the types can hold.
IsRow(r) ==
  /\ r.schema \in 1 .. 4 /\ r.type \in 0 .. ECDriverId.MAX_ID /\ r.id \in Nat
  /\ r.v \in Values
  /\ r.n \in 0 .. PortMod - 1 /\ r.n \in 0 .. TimeoutMod - 1
  /\ r.csv \in BOOLEAN
  /\ \A c \in TextColumns \intersect Columns[r.schema] : r.cell[c] \in {"ok", "null", "empty"}

ASSUME TableAssumption ==
  \A t \in Tables : /\ Len(t) \in Nat /\ DOMAIN t = 1 .. Len(t)
                    /\ \A k \in 1 .. Len(t) : IsRow(t[k])

\* An exception is neither a number nor a text nor a driver.
ASSUME ThrowAssumption == Throw \notin Int
ASSUME ValueAssumption == Throw \notin Values /\ "" \notin Values
ASSUME DriverAssumption ==
  Throw \notin [type : 1 .. 7, id : Nat, addr : Values \union {""}, secret : Values \union {""},
               port : Int, timeout : Int \union {Unset}]

(***************************************************************************)
(* Reading a cell: Throw, or the value.                                    *)
(***************************************************************************)
\* as<string>() of libpqxx.
as_string(r, c) ==
  CASE column(r, c) \in {"absent", "null"} -> Throw
    [] column(r, c) = "empty" -> ""
    [] OTHER -> r.v

\* as<T>(default) of libpqxx, for a number.
as_number(r, c, default) ==
  CASE column(r, c) = "null" -> default
    [] column(r, c) = "ok" -> r.n
    [] OTHER -> Throw

\* The casts of a jsonxx item: a value of another type is an empty string or
\* zero; the last character of an empty string is out of range.
item_string(r, k) ==
  CASE r.cell[k] \in {"absent", "empty"} -> Throw
    [] r.cell[k] = "ok" -> r.v
    [] OTHER -> ""

\* Mutant: a number is kept as wide as it was.
item_number_wide(r, k, mod) ==
  CASE r.cell[k] = "absent" -> Throw
    [] r.cell[k] = "ok" -> r.n
    [] r.cell[k] = "outside" -> mod
    [] OTHER -> 0

item_number(r, k, mod) ==
  CASE r.cell[k] = "absent" -> Throw
    [] r.cell[k] = "ok" -> r.n
    [] r.cell[k] = "outside" -> (-1) % mod
    [] OTHER -> 0

\* getJsonValueByKey(): the type is checked.
getJsonString(r, k) == IF r.cell[k] = "ok" THEN r.v ELSE Throw
getJsonNumber(r, k, mod) ==
  CASE r.cell[k] = "ok" -> r.n [] r.cell[k] = "outside" -> (-1) % mod [] OTHER -> Throw

\* jsonxx(data["parameters"]), and cJSON_Parse() of it.
jsonxx(r) == column(r, "parameters") = "ok"

Given(s) == s \notin {Throw, ""}
Read(n) == n # Throw

-----------------------------------------------------------------------------
(***************************************************************************)
(* CDriverCfg.                                                             *)
(***************************************************************************)
separate(f) == f \in {ECONFIG_DATA_AS_SEPARATE_COLUMN_V1, ECONFIG_DATA_AS_SEPARATE_COLUMN_V2}
json(f) == f = ECONFIG_DATA_AS_JSON_STRING

\* The first part of getID(): the format, if none was detected before.
detect(f, r) ==
  LET has(c) == c \in Columns[r.schema]
  IN CASE f > ECONFIG_DATA_INVALID -> f
       [] f <= ECONFIG_DATA_INVALID /\ has("parameters") -> ECONFIG_DATA_AS_JSON_STRING
       [] f <= ECONFIG_DATA_INVALID /\ ~has("parameters") /\ has("o_alkazar_key") ->
            ECONFIG_DATA_AS_SEPARATE_COLUMN_V2
       [] f <= ECONFIG_DATA_INVALID /\ ~has("parameters") /\ ~has("o_alkazar_key")
          /\ has("o_thinq_token") -> ECONFIG_DATA_AS_SEPARATE_COLUMN_V1
       [] OTHER -> f

\* A number of a driver type that as<uint16_t>() cannot hold.
getID_throws(r) == column(r, "o_driver_id") = "outside"

\* The rest of it.  A type that is not in the list dereferences the end of
\* the array: whatever lies there is taken for an identifier.
getID(f, r) ==
  LET found == IF r.type \in 0 .. ECDriverId.MAX_ID - 1 THEN {r.type}
               ELSE 0 .. ECDriverId.MAX_ID
  IN {IF d >= ECDriverId.MAX_ID
         \/ (d = ECDriverId.HTTP_ALCAZAR /\ f <= ECONFIG_DATA_AS_SEPARATE_COLUMN_V1)
      THEN ECDriverId.NULL ELSE d : d \in found}

getRawUniqId(f, r) ==
  LET cell == CASE separate(f) -> column(r, "o_id") [] json(f) -> column(r, "id") [] OTHER -> "null"
  IN CASE cell = "ok" -> r.id [] cell = "null" -> -1 [] OTHER -> Throw

getRawLabel(f, r) ==
  CASE separate(f) -> as_string(r, "o_name") [] json(f) -> as_string(r, "name") [] OTHER -> ""

getRawHost(f, r) == IF json(f) THEN item_string(r, "host") ELSE as_string(r, "o_host")
getRawPort(f, r) ==
  IF json(f) THEN item_number(r, "port", PortMod) ELSE as_number(r, "o_port", 0)
getRawTimeout(f, r) ==
  IF json(f) THEN item_number(r, "timeout", TimeoutMod) ELSE as_number(r, "o_timeout", Default)
getRawUserName(f, r) ==
  IF json(f) THEN item_string(r, "username") ELSE as_string(r, "o_thinq_username")

\* The constructor of the common part.
CDriverCfg(f, r) == getRawUniqId(f, r) \notin {-1, Throw} /\ Given(getRawLabel(f, r))

-----------------------------------------------------------------------------
(***************************************************************************)
(* The configurations: the driver a row makes, or Throw.                   *)
(***************************************************************************)
Driver(f, r, type, addr, secret, port, timeout) ==
  [type |-> type, id |-> getRawUniqId(f, r), addr |-> addr, secret |-> secret,
   port |-> port, timeout |-> timeout]

CSipDriverCfg(f, r) ==
  LET port == getRawPort(f, r) timeout == getRawTimeout(f, r)
  IN IF (json(f) => jsonxx(r)) /\ Given(getRawHost(f, r)) /\ Read(port) /\ Read(timeout)
     THEN Driver(f, r, ECDriverId.SIP, getRawHost(f, r), "", port, timeout)
     ELSE Throw

ThinqToken(f, r) == IF json(f) THEN item_string(r, "token") ELSE as_string(r, "o_thinq_token")

CHttpThinqDriverCfg(f, r) ==
  LET port == getRawPort(f, r) timeout == getRawTimeout(f, r)
  IN IF /\ json(f) => jsonxx(r)
        /\ Given(getRawHost(f, r)) /\ Given(getRawUserName(f, r)) /\ Given(ThinqToken(f, r))
        /\ Read(port) /\ Read(timeout)
     THEN Driver(f, r, ECDriverId.HTTP_THINQ, getRawHost(f, r), ThinqToken(f, r), port, timeout)
     ELSE Throw

getRawFilePath(f, r) ==
  IF json(f) THEN item_string(r, "csv_file_path") ELSE as_string(r, "o_csv_file")

\* The constructor also reads the file.
CMhashCsvDriver(f, r) ==
  IF (json(f) => jsonxx(r)) /\ Given(getRawFilePath(f, r)) /\ r.csv
  THEN Driver(f, r, ECDriverId.MHASH_CSV, getRawFilePath(f, r), "", 0, 0)
  ELSE Throw

\* Mutant: a column that is not there is a default key.
AlcazarKey_optional(f, r) ==
  CASE json(f) -> item_string(r, "key")
    [] column(r, "o_alkazar_key") = "absent" -> "none"
    [] f = ECONFIG_DATA_AS_SEPARATE_COLUMN_V2 -> as_string(r, "o_alkazar_key")
    [] OTHER -> ""

AlcazarKey(f, r) ==
  CASE json(f) -> item_string(r, "key")
    [] f = ECONFIG_DATA_AS_SEPARATE_COLUMN_V2 -> as_string(r, "o_alkazar_key")
    [] OTHER -> ""

CHttpAlcazarDriverCfg(f, r) ==
  LET port == getRawPort(f, r) timeout == getRawTimeout(f, r)
  IN IF /\ json(f) => jsonxx(r)
        /\ Given(getRawHost(f, r)) /\ Given(AlcazarKey(f, r)) /\ Read(port) /\ Read(timeout)
     THEN Driver(f, r, ECDriverId.HTTP_ALCAZAR, getRawHost(f, r), AlcazarKey(f, r), port, timeout)
     ELSE Throw

\* The operators map is checked where it is parsed, in module Formats.
CHttpCoureAnqDriverCfg(f, r) ==
  LET timeout == getJsonNumber(r, "timeout", TimeoutMod)
  IN IF /\ json(f) /\ jsonxx(r)
        /\ \A k \in {"base_url", "username", "password", "country_code"} : Given(getJsonString(r, k))
        /\ Read(timeout) /\ r.cell["operators_map"] = "ok"
     THEN Driver(f, r, ECDriverId.HTTP_COUREANQ, getJsonString(r, "base_url"),
                 getJsonString(r, "password"), 0, timeout)
     ELSE Throw

CCnamHttpDriverCfg(f, r) ==
  LET timeout == getJsonNumber(r, "timeout", TimeoutMod)
  IN IF json(f) /\ jsonxx(r) /\ Read(timeout) /\ Given(getJsonString(r, "url"))
     THEN Driver(f, r, ECDriverId.CNAM_HTTP, getJsonString(r, "url"), "", 0, timeout)
     ELSE Throw

\* Outside the JSON format nothing is read and the driver is made.
CHttpBulkvsDriverCfg(f, r) ==
  LET timeout == item_number(r, "timeout", TimeoutMod)
  IN CASE ~json(f) -> Driver(f, r, ECDriverId.HTTP_BULKVS, "", "", 0, Unset)
       [] json(f) /\ jsonxx(r) /\ Given(item_string(r, "url")) /\ Given(item_string(r, "token"))
          /\ Read(timeout) /\ r.cell["validate_https_certificate"] # "absent" ->
            Driver(f, r, ECDriverId.HTTP_BULKVS, item_string(r, "url"),
                   item_string(r, "token"), 0, timeout)
       [] OTHER -> Throw

\* CDriver::instantiate(), for the identifier getID() gave.
instantiate(f, r, id) ==
  IF ~CDriverCfg(f, r) THEN Throw
  ELSE CASE id = ECDriverId.SIP -> CSipDriverCfg(f, r)
         [] id = ECDriverId.HTTP_THINQ -> CHttpThinqDriverCfg(f, r)
         [] id = ECDriverId.MHASH_CSV -> CMhashCsvDriver(f, r)
         [] id = ECDriverId.HTTP_ALCAZAR -> CHttpAlcazarDriverCfg(f, r)
         [] id = ECDriverId.HTTP_COUREANQ -> CHttpCoureAnqDriverCfg(f, r)
         [] id = ECDriverId.CNAM_HTTP -> CCnamHttpDriverCfg(f, r)
         [] id = ECDriverId.HTTP_BULKVS -> CHttpBulkvsDriverCfg(f, r)

-----------------------------------------------------------------------------
Nobody == [id \in {} |-> Throw]
NoLoad == [on |-> FALSE, table |-> <<>>, i |-> 0, dbMap |-> Nobody]
NoSip == [isConfigured |-> FALSE, static |-> "", client |-> "none", identity |-> ""]

\* The process starts; its text configuration names the SIP identity "cfg".
Init ==
  /\ phase = "starting"
  /\ sConfigType = ECONFIG_DATA_INVALID
  /\ sip = NoSip
  /\ mDriversMap = Nobody
  /\ exporter \in BOOLEAN
  /\ series = {}
  /\ load = NoLoad
  /\ loads = 0

\* Mutant: the drivers made so far are put in use.
failed_swaps ==
  /\ load' = NoLoad
  /\ phase' = IF phase = "starting" THEN "ended" ELSE phase
  /\ mDriversMap' = load.dbMap

\* configure() after a failed load: nothing at a SIGHUP, the end of main() at
\* the start.
failed ==
  /\ load' = NoLoad
  /\ phase' = IF phase = "starting" THEN "ended" ELSE phase
  /\ UNCHANGED mDriversMap

begin == phase # "ended" /\ ~load.on /\ loads < MaxLoads /\ loads' = loads + 1

\* The database cannot be reached, or the query fails.
exec_fails == begin /\ failed /\ UNCHANGED <<sConfigType, sip, exporter, series>>

exec ==
  /\ begin
  /\ \E t \in Tables : load' = [on |-> TRUE, table |-> t, i |-> 1, dbMap |-> Nobody]
  /\ UNCHANGED <<phase, sConfigType, sip, mDriversMap, exporter, series>>

row == load.table[load.i]
more == load.on /\ load.i <= Len(load.table)

\* Mutant: the copy is forgotten when it is marked as made.
setStaticData_forgets == [sip EXCEPT !.isConfigured = TRUE]

\* The text configuration is copied once.
setStaticData == IF sip.isConfigured THEN sip
                 ELSE [sip EXCEPT !.isConfigured = TRUE, !.static = "cfg"]

\* getInstance() makes the client the first time it is called and may fail
\* half-way; the identity is set only behind it.
sip_client_fails(d) == d.type = ECDriverId.SIP /\ sip.client = "none"

sip_after(d) ==
  IF d.type = ECDriverId.SIP
  THEN [setStaticData EXCEPT !.client = "made", !.identity = setStaticData.static]
  ELSE sip

\* Mutant: a metric of the type alone.
driver_init_metrics_by_type(d) == {<<d.type, 1>>}

driver_init_metrics(d) == IF exporter THEN {<<d.type, d.id>>} ELSE {}

emplace(map, d) ==
  IF d.id \in DOMAIN map THEN map
  ELSE [id \in DOMAIN map \union {d.id} |-> IF id = d.id THEN d ELSE map[id]]

\* A row: the number of its type is out of range,
bad_id == getID_throws(row) /\ failed /\ UNCHANGED <<sip, series>>

\* or its driver is not supported,
skip_row ==
  /\ load' = [load EXCEPT !.i = @ + 1]
  /\ UNCHANGED <<phase, sip, mDriversMap, series>>

\* or cannot be made,
bad_row(f, id) ==
  /\ id # ECDriverId.NULL /\ instantiate(f, row, id) = Throw
  /\ failed
  /\ UNCHANGED <<sip, series>>

bad_client(f, id) ==
  /\ id # ECDriverId.NULL /\ instantiate(f, row, id) # Throw
  /\ sip_client_fails(instantiate(f, row, id))
  /\ sip' = [setStaticData EXCEPT !.client = "made"]
  /\ failed
  /\ UNCHANGED series

\* or is made, counted and stored.
good_row(f, id) ==
  LET d == instantiate(f, row, id)
  IN /\ id # ECDriverId.NULL /\ d # Throw
     /\ sip' = sip_after(d)
     /\ series' = series \union driver_init_metrics(d)
     /\ load' = [load EXCEPT !.i = @ + 1, !.dbMap = emplace(@, d)]
     /\ UNCHANGED <<phase, mDriversMap>>

load_row ==
  LET f == detect(sConfigType, row)
  IN /\ more
     /\ sConfigType' = f
     /\ \/ bad_id
        \/ /\ ~getID_throws(row)
           /\ \E id \in getID(f, row) : \/ id = ECDriverId.NULL /\ skip_row
                                        \/ bad_row(f, id)
                                        \/ bad_client(f, id)
                                        \/ good_row(f, id)
     /\ UNCHANGED <<exporter, loads>>

\* configure() after a load that succeeded: the maps are swapped.
configure ==
  /\ load.on /\ ~more
  /\ mDriversMap' = load.dbMap
  /\ phase' = "serving"
  /\ load' = NoLoad
  /\ UNCHANGED <<sConfigType, sip, exporter, series, loads>>

\* The process ends, or is ended, and is started again.
restart ==
  /\ phase' = "starting" /\ sConfigType' = ECONFIG_DATA_INVALID /\ sip' = NoSip
  /\ mDriversMap' = Nobody /\ exporter' \in BOOLEAN /\ series' = {} /\ load' = NoLoad
  /\ UNCHANGED loads

Next == exec_fails \/ exec \/ load_row \/ configure \/ restart

Spec == Init /\ [][Next]_vars

-----------------------------------------------------------------------------
(***************************************************************************)
(* The table as an operator of the system reads it.                        *)
(***************************************************************************)
Prefix == [host |-> "o_host", port |-> "o_port", timeout |-> "o_timeout",
           username |-> "o_thinq_username", token |-> "o_thinq_token",
           csv_file_path |-> "o_csv_file", key |-> "o_alkazar_key"]

FormatOf(schema) == IF schema = 4 THEN ECONFIG_DATA_INVALID ELSE schema

\* Settings of the types of driver: what must be given, and the numbers.
Texts == <<{"host"}, {"host", "username", "token"}, {"csv_file_path"}, {"host", "key"},
           {"base_url", "username", "password", "country_code"}, {"url"}, {"url", "token"}>>
Numbers == <<{"port", "timeout"}, {"port", "timeout"}, {}, {"port", "timeout"},
             {"timeout"}, {"timeout"}, {"timeout"}>>
Strict == {ECDriverId.HTTP_COUREANQ, ECDriverId.CNAM_HTTP}

\* Where the drivers of a type can be configured at all.
Supported(schema, type) ==
  schema = 3 \/ type \in 1 .. 3 \/ (type = 4 /\ schema = 2) \/ type = 7

State(r, k) == IF r.schema = 3 THEN r.cell[k] ELSE r.cell[Prefix[k]]

\* A row whose driver cannot be made.
Broken(r, type) ==
  \/ r.schema = 4
  \/ r.cell[IF r.schema = 3 THEN "id" ELSE "o_id"] # "ok"
  \/ r.cell[IF r.schema = 3 THEN "name" ELSE "o_name"] # "ok"
  \/ type \in Strict /\ r.schema # 3
  \/ ~(type = ECDriverId.HTTP_BULKVS /\ r.schema # 3)
     /\ \/ r.schema = 3 /\ r.cell["parameters"] # "ok"
        \/ \E k \in Texts[type] : State(r, k) # "ok"
        \/ \E k \in Numbers[type] :
             CASE type \in Strict -> State(r, k) \notin {"ok", "outside"}
               [] type \notin Strict /\ r.schema = 3 -> State(r, k) = "absent"
               [] OTHER -> State(r, k) \notin {"ok", "null"}
        \/ type = ECDriverId.MHASH_CSV /\ ~r.csv
        \/ type = ECDriverId.HTTP_COUREANQ /\ r.cell["operators_map"] # "ok"
        \/ type = ECDriverId.HTTP_BULKVS /\ r.cell["validate_https_certificate"] = "absent"

\* A table whose numbers of driver types are all in range.
Numbered(t) == \A k \in DOMAIN t : t[k].schema \in 1 .. 2 => t[k].cell["o_driver_id"] # "outside"

\* Readings of the types of a table: a type that is not in the list is any.
Readings(t) ==
  {c \in [DOMAIN t -> 0 .. 7] : \A k \in DOMAIN t : t[k].type \in 0 .. 7 => c[k] = t[k].type}

Used(t, c) == {k \in DOMAIN t : c[k] # 0 /\ (c[k] = 4 => t[k].schema \in {2, 3})}

\* d is the driver of row r: the settings are the row's own, a number the row
\* does not hold is replaced in the way the format has.
IsDriverOf(d, r, type) ==
  LET unread == type = ECDriverId.HTTP_BULKVS /\ r.schema # 3
      number(v, k, mod) == IF State(r, k) = "ok" THEN v = r.n ELSE v \in 0 .. mod - 1
  IN /\ d.type = type /\ d.id = r.id
     /\ d.addr = (IF unread THEN "" ELSE r.v)
     /\ d.secret = (IF unread \/ type \in {1, 3, 6} THEN "" ELSE r.v)
     /\ "port" \in Numbers[type] => number(d.port, "port", PortMod)
     /\ "timeout" \in Numbers[type] /\ ~unread => number(d.timeout, "timeout", TimeoutMod)

\* The map of the first driver of each id.
IsMapOf(map, t, c) ==
  /\ DOMAIN map = {t[k].id : k \in Used(t, c)}
  /\ \A k \in Used(t, c) : (\A l \in Used(t, c) : t[l].id = t[k].id => k <= l)
                           => IsDriverOf(map[t[k].id], t[k], c[k])

(***************************************************************************)
(* Properties.                                                             *)
(***************************************************************************)
\* A driver holds a port and a timeout of their widths and is stored under
\* its own id; the static data are of the types of their declarations.
TypeOK ==
  /\ phase \in {"starting", "serving", "ended"}
  /\ sConfigType \in Formats
  /\ sip.isConfigured \in BOOLEAN /\ sip.client \in {"none", "made"}
  /\ \A m \in {mDriversMap, load.dbMap} : \A id \in DOMAIN m :
       /\ m[id].id = id /\ m[id].type \in 1 .. 7 /\ m[id].port \in 0 .. PortMod - 1
       /\ m[id].timeout \in (0 .. TimeoutMod - 1) \union {Unset}
  /\ load.on \in BOOLEAN /\ loads \in 0 .. MaxLoads

Ends == load.on /\ ~load'.on /\ phase' # "starting"
Agrees == \A k \in DOMAIN load.table : sConfigType' = FormatOf(load.table[k].schema)

\* Resolver::configure(): when the format that is in use is the table's own,
\* a load either leaves the drivers in use as a whole, because a row was
\* broken or of a type out of range (or the SIP client could not be made), or
\* puts the drivers of all rows in use, the first of each id, with their own
\* settings.
LoadIsTheTable ==
  [][Ends /\ Agrees =>
       LET t == load.table
       IN \/ /\ mDriversMap' = mDriversMap
             /\ \/ \E c \in Readings(t) : \E k \in Used(t, c) : Broken(t[k], c[k])
                \/ ~Numbered(t)
                \/ \E k \in DOMAIN t : t[k].type \in {1, 8} /\ sip.client = "none"
          \/ /\ Numbered(t)
             /\ \E c \in Readings(t) :
                  (\A k \in Used(t, c) : ~Broken(t[k], c[k])) /\ IsMapOf(mDriversMap', t, c)]_vars

\* CDriverCfg::getID() keeps the format of the first table for ever: when the
\* database is upgraded under a running process, a row may be passed over or
\* the load may fail, but no driver is made of cells that are not its own.
StaleFormatIsSafe ==
  [][Ends /\ ~Agrees =>
       \/ mDriversMap' = mDriversMap
       \/ \A id \in DOMAIN mDriversMap' : \E k \in DOMAIN load.table, type \in 1 .. 7 :
            /\ load.table[k].type \in {type, 8}
            /\ Supported(load.table[k].schema, type) /\ ~Broken(load.table[k], type)
            /\ IsDriverOf(mDriversMap'[id], load.table[k], type)]_vars

\* PrometheusExporter: every driver in use has its series, in whichever of
\* several loads, failed ones among them, it was added.
SeriesForEveryDriver ==
  exporter => \A id \in DOMAIN mDriversMap : <<mDriversMap[id].type, id>> \in series

\* CSipDriverCfg::setStaticData() copies the identity once and the client is
\* made once: a SIP driver in use calls with the identity of the text
\* configuration, also when the load that made the client failed.
SipIdentitySet ==
  (\E id \in DOMAIN mDriversMap : mDriversMap[id].type = ECDriverId.SIP)
     => sip.client = "made" /\ sip.identity = "cfg"

\* Every driver in use can serve: its numbers have the widths of the code's
\* types, its metrics exist and, for SIP, its identity is set, whichever loads
\* failed before.
DriversReady == TypeOK /\ SeriesForEveryDriver /\ SipIdentitySet
=============================================================================
