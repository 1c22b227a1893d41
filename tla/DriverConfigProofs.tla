------------------------- MODULE DriverConfigProofs -------------------------
(***************************************************************************)
(* Theorems about DriverConfig, for tables of any length and any rows.     *)
(***************************************************************************)
EXTENDS DriverConfig, TLAPS

-----------------------------------------------------------------------------
(***************************************************************************)
(* Reading cells.                                                          *)
(***************************************************************************)

\* Which columns the versions of the database have.
LEMMA ColumnsOfSchemas ==
  /\ Columns[1] = V1Columns
  /\ Columns[2] = V1Columns \union {"o_alkazar_key"}
  /\ Columns[3] = {"id", "name", "database_type", "parameters"}
  /\ Columns[4] = {"id", "name", "database_type"}
  BY DEF Columns

\* A row is of one of them, and what it holds is no exception.
LEMMA RowParts ==
  ASSUME NEW r, IsRow(r)
  PROVE  /\ r.schema \in {1, 2, 3, 4}
         /\ r.type \in 0 .. 8
         /\ r.id \in Nat /\ r.id # -1 /\ r.id # Throw
         /\ r.v \in Values /\ r.v # "" /\ r.v # Throw
         /\ r.n \in 0 .. PortMod - 1 /\ r.n \in 0 .. TimeoutMod - 1
  <1>1. ECDriverId.MAX_ID = 8
    BY DEF ECDriverId
  <1>2. /\ r.schema \in 1 .. 4 /\ r.type \in 0 .. 8
        /\ r.id \in Nat /\ r.v \in Values
        /\ r.n \in 0 .. PortMod - 1 /\ r.n \in 0 .. TimeoutMod - 1
    BY <1>1 DEF IsRow
  <1>3. \A n \in Nat : n # -1 /\ n \in Int
    OBVIOUS
  <1>4. \A n \in 1 .. 4 : n \in {1, 2, 3, 4}
    OBVIOUS
  <1>5. (\A n \in Int : n # Throw) /\ (\A s \in Values : s # Throw /\ s # "")
    BY ThrowAssumption, ValueAssumption
  <1>6. QED
    BY <1>2, <1>3, <1>4, <1>5, Zenon

\* A text column is read where it is, and only there.
LEMMA TextColumn ==
  ASSUME NEW r, IsRow(r), NEW c \in TextColumns
  PROVE  /\ Given(as_string(r, c)) <=> c \in Columns[r.schema] /\ r.cell[c] = "ok"
         /\ Given(as_string(r, c)) => as_string(r, c) = r.v
  <1>1. c \in Columns[r.schema] => r.cell[c] \in {"ok", "null", "empty"}
    BY DEF IsRow
  <1>2. r.v \notin {Throw, ""}
    BY RowParts
  <1>3. CASE column(r, c) \in {"absent", "null"}
    BY <1>3 DEF as_string, Given, column
  <1>4. CASE column(r, c) = "empty"
    BY <1>4 DEF as_string, Given, column
  <1>5. CASE column(r, c) = "ok"
    BY <1>5, <1>2 DEF as_string, Given, column
  <1>6. QED
    BY <1>1, <1>3, <1>4, <1>5 DEF column

\* A number column.
LEMMA NumberColumn ==
  ASSUME NEW r, NEW c, NEW default, NEW mod \in Nat, mod # 0, r.n \in 0 .. mod - 1,
         default \in 0 .. mod - 1
  PROVE  /\ Read(as_number(r, c, default)) <=> column(r, c) \in {"ok", "null"}
         /\ Read(as_number(r, c, default)) => as_number(r, c, default) \in 0 .. mod - 1
         /\ column(r, c) = "ok" => as_number(r, c, default) = r.n
  BY ThrowAssumption DEF as_number, Read

\* The settings of the JSON format.
LEMMA TextItem ==
  ASSUME NEW r, IsRow(r), NEW k
  PROVE  /\ Given(item_string(r, k)) <=> r.cell[k] = "ok"
         /\ Given(getJsonString(r, k)) <=> r.cell[k] = "ok"
         /\ r.cell[k] = "ok" => item_string(r, k) = r.v /\ getJsonString(r, k) = r.v
  <1>1. r.v \notin {Throw, ""}
    BY RowParts
  <1>2. CASE r.cell[k] = "ok"
    BY <1>1, <1>2 DEF item_string, getJsonString, Given
  <1>3. CASE r.cell[k] # "ok"
    BY <1>3 DEF item_string, getJsonString, Given
  <1>4. QED
    BY <1>2, <1>3

\* The cast of a JSON item to a number gives one of the width asked for, or throws.
LEMMA NumberItem ==
  ASSUME NEW r, NEW k, NEW mod \in Nat, mod # 0, r.n \in 0 .. mod - 1
  PROVE  /\ Read(item_number(r, k, mod)) <=> r.cell[k] # "absent"
         /\ Read(item_number(r, k, mod)) => item_number(r, k, mod) \in 0 .. mod - 1
         /\ Read(getJsonNumber(r, k, mod)) <=> r.cell[k] \in {"ok", "outside"}
         /\ Read(getJsonNumber(r, k, mod)) => getJsonNumber(r, k, mod) \in 0 .. mod - 1
         /\ r.cell[k] = "ok" => item_number(r, k, mod) = r.n /\ getJsonNumber(r, k, mod) = r.n
  <1>1. (-1) % mod \in 0 .. mod - 1 /\ 0 \in 0 .. mod - 1
    OBVIOUS
  <1>2. \A n \in 0 .. mod - 1 : n # Throw
    BY ThrowAssumption
  <1>3. CASE r.cell[k] = "ok"
    BY <1>1, <1>2, <1>3 DEF item_number, getJsonNumber, Read
  <1>4. CASE r.cell[k] = "outside"
    BY <1>1, <1>2, <1>4 DEF item_number, getJsonNumber, Read
  <1>5. CASE r.cell[k] \notin {"ok", "outside"}
    BY <1>1, <1>2, <1>5 DEF item_number, getJsonNumber, Read
  <1>6. QED
    BY <1>3, <1>4, <1>5

-----------------------------------------------------------------------------
(***************************************************************************)
(* Reading a row in the format that is in use.                             *)
(***************************************************************************)

\* The format reads the columns of the row.
Fits(f, r) ==
  \/ separate(f) /\ r.schema \in {1, 2}
  \/ json(f) /\ r.schema = 3

\* The common part: the id and the name are the row's own.
LEMMA CommonPart ==
  ASSUME NEW f \in Formats, NEW r, IsRow(r)
  PROVE  /\ CDriverCfg(f, r) <=>
              \/ separate(f) /\ r.schema \in {1, 2} /\ r.cell["o_id"] = "ok" /\ r.cell["o_name"] = "ok"
              \/ json(f) /\ r.schema \in {3, 4} /\ r.cell["id"] = "ok" /\ r.cell["name"] = "ok"
         /\ CDriverCfg(f, r) => getRawUniqId(f, r) = r.id
  <1>1. r.schema \in {1, 2, 3, 4} /\ r.id \notin {-1, Throw}
    BY RowParts
  <1>2. /\ "o_id" \in Columns[r.schema] <=> r.schema \in {1, 2}
        /\ "o_name" \in Columns[r.schema] <=> r.schema \in {1, 2}
        /\ "id" \in Columns[r.schema] <=> r.schema \in {3, 4}
        /\ "name" \in Columns[r.schema] <=> r.schema \in {3, 4}
    <2>2. QED
      BY <1>1, ColumnsOfSchemas DEF V1Columns
  <1>3. "name" \in TextColumns /\ "o_name" \in TextColumns
    BY DEF TextColumns
  <1>4. CASE separate(f)
    <2>1. ~json(f)
      BY <1>4 DEF separate, json, ECONFIG_DATA_AS_SEPARATE_COLUMN_V1,
                  ECONFIG_DATA_AS_SEPARATE_COLUMN_V2, ECONFIG_DATA_AS_JSON_STRING
    <2>2. getRawLabel(f, r) = as_string(r, "o_name")
      BY <1>4, <2>1 DEF getRawLabel
    <2>3. /\ column(r, "o_id") = "ok" => getRawUniqId(f, r) = r.id
          /\ column(r, "o_id") = "null" => getRawUniqId(f, r) = -1
          /\ column(r, "o_id") \notin {"ok", "null"} => getRawUniqId(f, r) = Throw
      BY <1>4, <2>1 DEF getRawUniqId
    <2>4. /\ getRawUniqId(f, r) \notin {-1, Throw} <=> column(r, "o_id") = "ok"
          /\ column(r, "o_id") = "ok" => getRawUniqId(f, r) = r.id
      BY <1>1, <2>3
    <2>5. Given(getRawLabel(f, r)) <=> "o_name" \in Columns[r.schema] /\ r.cell["o_name"] = "ok"
      BY <2>2, <1>3, TextColumn
    <2>6. QED
      BY <1>2, <1>4, <2>1, <2>4, <2>5 DEF CDriverCfg, column
  <1>5. CASE json(f)
    <2>1. ~separate(f)
      BY <1>5 DEF separate, json, ECONFIG_DATA_AS_SEPARATE_COLUMN_V1,
                  ECONFIG_DATA_AS_SEPARATE_COLUMN_V2, ECONFIG_DATA_AS_JSON_STRING
    <2>2. getRawLabel(f, r) = as_string(r, "name")
      BY <1>5, <2>1 DEF getRawLabel
    <2>3. getRawUniqId(f, r) = CASE column(r, "id") = "ok" -> r.id
                                 [] column(r, "id") = "null" -> -1 [] OTHER -> Throw
      BY <1>5, <2>1 DEF getRawUniqId
    <2>4. /\ getRawUniqId(f, r) \notin {-1, Throw} <=> column(r, "id") = "ok"
          /\ column(r, "id") = "ok" => getRawUniqId(f, r) = r.id
      BY <1>1, <2>3
    <2>5. Given(getRawLabel(f, r)) <=> "name" \in Columns[r.schema] /\ r.cell["name"] = "ok"
      BY <2>2, <1>3, TextColumn
    <2>6. QED
      BY <1>2, <1>5, <2>1, <2>4, <2>5 DEF CDriverCfg, column
  <1>6. CASE ~separate(f) /\ ~json(f)
    BY <1>6 DEF CDriverCfg, getRawLabel, Given
  <1>7. QED
    BY <1>4, <1>5, <1>6

\* The parameters are there where the database has them.
LEMMA Parameters ==
  ASSUME NEW r, IsRow(r)
  PROVE  jsonxx(r) <=> r.schema = 3 /\ r.cell["parameters"] = "ok"
  <1>1. "parameters" \in Columns[r.schema] <=> r.schema = 3
    <2>1. r.schema \in {1, 2, 3, 4}
      BY RowParts
    <2>2. QED
      BY <2>1, ColumnsOfSchemas DEF V1Columns
  <1>2. QED
    BY <1>1 DEF jsonxx, column

\* The texts: what is given is the row's own.
LEMMA TextSettings ==
  ASSUME NEW f \in Formats, NEW r, IsRow(r), Fits(f, r)
  PROVE  /\ Given(getRawHost(f, r)) <=> State(r, "host") = "ok"
         /\ Given(getRawHost(f, r)) => getRawHost(f, r) = r.v
         /\ Given(getRawUserName(f, r)) <=> State(r, "username") = "ok"
         /\ Given(ThinqToken(f, r)) <=> State(r, "token") = "ok"
         /\ Given(ThinqToken(f, r)) => ThinqToken(f, r) = r.v
         /\ Given(getRawFilePath(f, r)) <=> State(r, "csv_file_path") = "ok"
         /\ Given(getRawFilePath(f, r)) => getRawFilePath(f, r) = r.v
  <1>1. CASE json(f)
    <2>1. r.schema = 3
      BY <1>1 DEF Fits, separate, json, ECONFIG_DATA_AS_SEPARATE_COLUMN_V1,
                  ECONFIG_DATA_AS_SEPARATE_COLUMN_V2, ECONFIG_DATA_AS_JSON_STRING
    <2>2. \A k : State(r, k) = r.cell[k]
      BY <2>1 DEF State
    <2>3. QED
      BY <1>1, <2>2, TextItem DEF getRawHost, getRawUserName, ThinqToken, getRawFilePath
  <1>2. CASE ~json(f)
    <2>1. r.schema \in {1, 2}
      BY <1>2 DEF Fits
    <2>2. {"o_host", "o_thinq_username", "o_thinq_token", "o_csv_file"}
            \subseteq TextColumns \intersect Columns[r.schema]
      BY <2>1, ColumnsOfSchemas DEF TextColumns, V1Columns
    <2>3. /\ State(r, "host") = r.cell["o_host"]
          /\ State(r, "username") = r.cell["o_thinq_username"]
          /\ State(r, "token") = r.cell["o_thinq_token"]
          /\ State(r, "csv_file_path") = r.cell["o_csv_file"]
      BY <2>1 DEF State, Prefix
    <2>4. QED
      BY <1>2, <2>2, <2>3, TextColumn DEF getRawHost, getRawUserName, ThinqToken, getRawFilePath
  <1>3. QED
    BY <1>1, <1>2

\* The numbers: what is read has the width of its type.
LEMMA NumberSettings ==
  ASSUME NEW f \in Formats, NEW r, IsRow(r), Fits(f, r)
  PROVE  /\ Read(getRawPort(f, r)) <=>
              IF r.schema = 3 THEN State(r, "port") # "absent" ELSE State(r, "port") \in {"ok", "null"}
         /\ Read(getRawPort(f, r)) => getRawPort(f, r) \in 0 .. PortMod - 1
         /\ State(r, "port") = "ok" => getRawPort(f, r) = r.n
         /\ Read(getRawTimeout(f, r)) <=>
              IF r.schema = 3 THEN State(r, "timeout") # "absent"
                              ELSE State(r, "timeout") \in {"ok", "null"}
         /\ Read(getRawTimeout(f, r)) => getRawTimeout(f, r) \in 0 .. TimeoutMod - 1
         /\ State(r, "timeout") = "ok" => getRawTimeout(f, r) = r.n
  <1>1. /\ r.n \in 0 .. PortMod - 1 /\ r.n \in 0 .. TimeoutMod - 1
        /\ PortMod \in Nat /\ PortMod # 0 /\ TimeoutMod \in Nat /\ TimeoutMod # 0
        /\ 0 \in 0 .. PortMod - 1 /\ Default \in 0 .. TimeoutMod - 1
    <2>1. r.n \in 0 .. PortMod - 1 /\ r.n \in 0 .. TimeoutMod - 1
      BY RowParts
    <2>2. 0 \in 0 .. PortMod - 1
      BY ModAssumption
    <2>3. QED
      BY <2>1, <2>2, ModAssumption
  <1>2. CASE json(f)
    <2>1. r.schema = 3
      BY <1>2 DEF Fits, separate, json, ECONFIG_DATA_AS_SEPARATE_COLUMN_V1,
                  ECONFIG_DATA_AS_SEPARATE_COLUMN_V2, ECONFIG_DATA_AS_JSON_STRING
    <2>2. \A k : State(r, k) = r.cell[k]
      BY <2>1 DEF State
    <2>3. /\ getRawPort(f, r) = item_number(r, "port", PortMod)
          /\ getRawTimeout(f, r) = item_number(r, "timeout", TimeoutMod)
      BY <1>2 DEF getRawPort, getRawTimeout
    <2>4. /\ Read(item_number(r, "port", PortMod)) <=> r.cell["port"] # "absent"
          /\ Read(item_number(r, "port", PortMod)) => item_number(r, "port", PortMod) \in 0 .. PortMod - 1
          /\ r.cell["port"] = "ok" => item_number(r, "port", PortMod) = r.n
      BY <1>1, NumberItem
    <2>5. /\ Read(item_number(r, "timeout", TimeoutMod)) <=> r.cell["timeout"] # "absent"
          /\ Read(item_number(r, "timeout", TimeoutMod)) =>
               item_number(r, "timeout", TimeoutMod) \in 0 .. TimeoutMod - 1
          /\ r.cell["timeout"] = "ok" => item_number(r, "timeout", TimeoutMod) = r.n
      BY <1>1, NumberItem
    <2>6. QED
      BY <2>1, <2>2, <2>3, <2>4, <2>5
  <1>3. CASE ~json(f)
    <2>1. r.schema \in {1, 2} /\ r.schema # 3
      BY <1>3 DEF Fits
    <2>2. "o_port" \in Columns[r.schema] /\ "o_timeout" \in Columns[r.schema]
      BY <2>1, ColumnsOfSchemas DEF V1Columns
    <2>3. State(r, "port") = column(r, "o_port") /\ State(r, "timeout") = column(r, "o_timeout")
      BY <2>1, <2>2 DEF State, Prefix, column
    <2>4. /\ getRawPort(f, r) = as_number(r, "o_port", 0)
          /\ getRawTimeout(f, r) = as_number(r, "o_timeout", Default)
      BY <1>3 DEF getRawPort, getRawTimeout
    <2>5. QED
      BY <1>1, <2>1, <2>3, <2>4, NumberColumn
  <1>4. QED
    BY <1>2, <1>3

\* The key of Alcazar: in the format without its column there is none.
LEMMA KeySetting ==
  ASSUME NEW f \in Formats, NEW r, IsRow(r), Fits(f, r)
  PROVE  /\ Given(AlcazarKey(f, r)) <=>
              f # ECONFIG_DATA_AS_SEPARATE_COLUMN_V1 /\ r.schema # 1 /\ State(r, "key") = "ok"
         /\ Given(AlcazarKey(f, r)) => AlcazarKey(f, r) = r.v
  <1>1. CASE json(f)
    <2>1. r.schema = 3 /\ f # ECONFIG_DATA_AS_SEPARATE_COLUMN_V1
      BY <1>1 DEF Fits, separate, json, ECONFIG_DATA_AS_SEPARATE_COLUMN_V1,
                  ECONFIG_DATA_AS_SEPARATE_COLUMN_V2, ECONFIG_DATA_AS_JSON_STRING
    <2>2. State(r, "key") = r.cell["key"] /\ r.schema # 1
      BY <2>1 DEF State
    <2>3. AlcazarKey(f, r) = item_string(r, "key")
      BY <1>1 DEF AlcazarKey, json, ECONFIG_DATA_AS_SEPARATE_COLUMN_V2, ECONFIG_DATA_AS_JSON_STRING
    <2>4. QED
      BY <2>1, <2>2, <2>3, TextItem
  <1>2. CASE ~json(f) /\ f = ECONFIG_DATA_AS_SEPARATE_COLUMN_V2
    <2>1. r.schema \in {1, 2} /\ f # ECONFIG_DATA_AS_SEPARATE_COLUMN_V1
      BY <1>2 DEF Fits, ECONFIG_DATA_AS_SEPARATE_COLUMN_V1, ECONFIG_DATA_AS_SEPARATE_COLUMN_V2
    <2>2. "o_alkazar_key" \in TextColumns /\ ("o_alkazar_key" \in Columns[r.schema] <=> r.schema # 1)
      BY <2>1, ColumnsOfSchemas DEF TextColumns, V1Columns
    <2>3. State(r, "key") = r.cell["o_alkazar_key"]
      BY <2>1 DEF State, Prefix
    <2>4. AlcazarKey(f, r) = as_string(r, "o_alkazar_key")
      BY <1>2 DEF AlcazarKey
    <2>5. QED
      BY <2>1, <2>2, <2>3, <2>4, TextColumn
  <1>3. CASE ~json(f) /\ f # ECONFIG_DATA_AS_SEPARATE_COLUMN_V2
    <2>1. f = ECONFIG_DATA_AS_SEPARATE_COLUMN_V1
      BY <1>3 DEF Fits, separate
    <2>2. AlcazarKey(f, r) = ""
      BY <1>3 DEF AlcazarKey
    <2>3. QED
      BY <2>1, <2>2 DEF Given
  <1>4. QED
    BY <1>1, <1>2, <1>3

-----------------------------------------------------------------------------
(***************************************************************************)
(* The driver of a row.                                                    *)
(***************************************************************************)

\* The numbers of the driver types.
LEMMA DriverIds ==
  /\ ECDriverId.SIP = 1 /\ ECDriverId.HTTP_THINQ = 2 /\ ECDriverId.MHASH_CSV = 3
  /\ ECDriverId.HTTP_ALCAZAR = 4 /\ ECDriverId.HTTP_COUREANQ = 5
  /\ ECDriverId.CNAM_HTTP = 6 /\ ECDriverId.HTTP_BULKVS = 7
  /\ ECDriverId.NULL = 0 /\ ECDriverId.MAX_ID = 8
  /\ Strict = {5, 6}
  BY DEF ECDriverId, Strict

\* The texts and the numbers that each type of driver needs.
LEMMA Settings ==
  /\ Texts[1] = {"host"} /\ Texts[2] = {"host", "username", "token"}
  /\ Texts[3] = {"csv_file_path"} /\ Texts[4] = {"host", "key"}
  /\ Texts[5] = {"base_url", "username", "password", "country_code"}
  /\ Texts[6] = {"url"} /\ Texts[7] = {"url", "token"}
  /\ Numbers[1] = {"port", "timeout"} /\ Numbers[2] = {"port", "timeout"}
  /\ Numbers[3] = {} /\ Numbers[4] = {"port", "timeout"}
  /\ Numbers[5] = {"timeout"} /\ Numbers[6] = {"timeout"} /\ Numbers[7] = {"timeout"}
  BY DEF Texts, Numbers

\* The id and the name are there and the parameters are, where there are any.
CommonGiven(r) ==
  /\ r.schema # 4
  /\ r.schema = 3 => r.cell["id"] = "ok" /\ r.cell["name"] = "ok" /\ r.cell["parameters"] = "ok"
  /\ r.schema # 3 => r.cell["o_id"] = "ok" /\ r.cell["o_name"] = "ok"

\* A number that is not checked for its type can be read.
NumberGiven(r, k) ==
  IF r.schema = 3 THEN State(r, k) # "absent" ELSE State(r, k) \in {"ok", "null"}

\* What a row must give, for the types that are read in every format,
LEMMA BrokenRow ==
  ASSUME NEW r, NEW type \in 1 .. 4
  PROVE  ~Broken(r, type) <=>
           /\ CommonGiven(r)
           /\ \A k \in Texts[type] : State(r, k) = "ok"
           /\ \A k \in Numbers[type] : NumberGiven(r, k)
           /\ type = 3 => r.csv
  <1>1. /\ type \notin Strict /\ type # ECDriverId.HTTP_COUREANQ /\ type # ECDriverId.HTTP_BULKVS
        /\ ECDriverId.MHASH_CSV = 3
    BY DriverIds
  <1>2. QED
    BY <1>1 DEF Broken, CommonGiven, NumberGiven

\* and for those that the JSON format alone has.
LEMMA BrokenJsonRow ==
  ASSUME NEW r, NEW type \in 5 .. 7
  PROVE  ~Broken(r, type) <=>
           /\ r.schema = 4 => FALSE
           /\ r.schema = 3 =>
                /\ CommonGiven(r)
                /\ \A k \in Texts[type] : r.cell[k] = "ok"
                /\ IF type = 7 THEN r.cell["timeout"] # "absent"
                               ELSE r.cell["timeout"] \in {"ok", "outside"}
                /\ type = 5 => r.cell["operators_map"] = "ok"
                /\ type = 7 => r.cell["validate_https_certificate"] # "absent"
           /\ r.schema # 3 => type = 7 /\ CommonGiven(r)
  <1>1. CASE r.schema # 3
    <2>1. (type \in Strict <=> type # 7) /\ ECDriverId.HTTP_BULKVS = 7
      BY DriverIds
    <2>2. QED
      BY <1>1, <2>1 DEF Broken, CommonGiven
  <1>2. CASE r.schema = 3
    <2>1. /\ \A k : State(r, k) = r.cell[k]
          /\ Numbers[type] = {"timeout"}
          /\ ECDriverId.HTTP_BULKVS = 7 /\ ECDriverId.HTTP_COUREANQ = 5
          /\ ECDriverId.MHASH_CSV # type
          /\ type \in Strict <=> type # 7
      <3>1. type = 5 \/ type = 6 \/ type = 7
        OBVIOUS
      <3>2. QED
        BY <1>2, <3>1, DriverIds, Settings DEF State
    <2>2. QED
      BY <1>2, <2>1 DEF Broken, CommonGiven
  <1>3. QED
    BY <1>1, <1>2

\* The numbers of a driver have the widths of their types.
InRange(d) ==
  d.port \in 0 .. PortMod - 1 /\ d.timeout \in (0 .. TimeoutMod - 1) \union {Unset}

\* A driver of the row and of no other, if the row may have one.
SoundDriver(d, r, type) ==
  Supported(r.schema, type) /\ ~Broken(r, type) /\ IsDriverOf(d, r, type) /\ InRange(d)

\* A driver is no exception.
LEMMA DriverIsMade ==
  ASSUME NEW f, NEW r, NEW type \in 1 .. 7, NEW addr \in Values \union {""},
         NEW secret \in Values \union {""}, NEW port \in Int, NEW timeout \in Int \union {Unset},
         getRawUniqId(f, r) \in Nat
  PROVE  Driver(f, r, type, addr, secret, port, timeout) # Throw
  <1> DEFINE d == Driver(f, r, type, addr, secret, port, timeout)
  <1>1. d \in [type : 1 .. 7, id : Nat, addr : Values \union {""}, secret : Values \union {""},
              port : Int, timeout : Int \union {Unset}]
    BY DEF Driver
  <1>2. QED
    BY <1>1, DriverAssumption, Zenon

\* It is the row's own when its settings are.
LEMMA DriverIsOwn ==
  ASSUME NEW f, NEW r, NEW type \in 1 .. 7, NEW secret, NEW port \in 0 .. PortMod - 1,
         NEW timeout \in 0 .. TimeoutMod - 1, NEW d,
         d = Driver(f, r, type, r.v, secret, port, timeout),
         getRawUniqId(f, r) = r.id,
         r.schema = 3 \/ type # 7,
         secret = IF type \in {1, 3, 6} THEN "" ELSE r.v,
         "port" \in Numbers[type] /\ State(r, "port") = "ok" => port = r.n,
         "timeout" \in Numbers[type] /\ State(r, "timeout") = "ok" => timeout = r.n
  PROVE  IsDriverOf(d, r, type) /\ InRange(d)
  <1>1. /\ d.type = type /\ d.id = getRawUniqId(f, r) /\ d.addr = r.v /\ d.secret = secret
        /\ d.port = port /\ d.timeout = timeout
    BY DEF Driver
  <1>2. ~(type = ECDriverId.HTTP_BULKVS /\ r.schema # 3)
    BY DriverIds
  <1>3. IsDriverOf(d, r, type)
    BY <1>1, <1>2, Zenon DEF IsDriverOf
  <1>4. InRange(d)
    BY <1>1 DEF InRange
  <1>5. QED
    BY <1>3, <1>4

\* The common part and the parameters fit the format together.
LEMMA FitsWhenRead ==
  ASSUME NEW f \in Formats, NEW r, IsRow(r)
  PROVE  /\ CDriverCfg(f, r) /\ (json(f) => jsonxx(r)) =>
              Fits(f, r) /\ CommonGiven(r) /\ getRawUniqId(f, r) = r.id /\ (json(f) <=> r.schema = 3)
         /\ f = FormatOf(r.schema) /\ CommonGiven(r) =>
              /\ Fits(f, r) /\ CDriverCfg(f, r) /\ (json(f) => jsonxx(r))
              /\ json(f) <=> r.schema = 3
  <1>1. r.schema \in {1, 2, 3, 4} /\ f \in 0 .. 3
    BY RowParts DEF Formats, ECONFIG_DATA_INVALID, ECONFIG_DATA_AS_JSON_STRING
  <1>2. (json(f) <=> f = 3) /\ (separate(f) <=> f \in {1, 2})
    BY DEF json, separate, ECONFIG_DATA_AS_SEPARATE_COLUMN_V1, ECONFIG_DATA_AS_SEPARATE_COLUMN_V2,
           ECONFIG_DATA_AS_JSON_STRING
  <1>3. f = FormatOf(r.schema) => f = IF r.schema = 4 THEN 0 ELSE r.schema
    BY DEF FormatOf, ECONFIG_DATA_INVALID
  <1>4. ASSUME CDriverCfg(f, r), json(f) => jsonxx(r)
        PROVE  Fits(f, r) /\ CommonGiven(r) /\ getRawUniqId(f, r) = r.id /\ (json(f) <=> r.schema = 3)
    <2>1. /\ getRawUniqId(f, r) = r.id
          /\ \/ separate(f) /\ r.schema \in {1, 2} /\ r.cell["o_id"] = "ok" /\ r.cell["o_name"] = "ok"
             \/ json(f) /\ r.schema \in {3, 4} /\ r.cell["id"] = "ok" /\ r.cell["name"] = "ok"
      BY <1>4, CommonPart
    <2>2. json(f) => r.schema = 3 /\ r.cell["parameters"] = "ok"
      BY <1>4, Parameters
    <2>3. QED
      BY <2>1, <2>2
         DEF CommonGiven, Fits, json, separate, ECONFIG_DATA_AS_SEPARATE_COLUMN_V1,
             ECONFIG_DATA_AS_SEPARATE_COLUMN_V2, ECONFIG_DATA_AS_JSON_STRING
  <1>5. ASSUME f = FormatOf(r.schema), CommonGiven(r)
        PROVE  /\ Fits(f, r) /\ CDriverCfg(f, r) /\ (json(f) => jsonxx(r))
               /\ json(f) <=> r.schema = 3
    <2>1. r.schema \in {1, 2, 3} /\ f = r.schema
      BY <1>1, <1>3, <1>5 DEF CommonGiven
    <2>2. Fits(f, r) /\ (json(f) <=> r.schema = 3)
      BY <2>1
         DEF Fits, json, separate, ECONFIG_DATA_AS_SEPARATE_COLUMN_V1,
             ECONFIG_DATA_AS_SEPARATE_COLUMN_V2, ECONFIG_DATA_AS_JSON_STRING
    <2>3. r.schema = 3 => jsonxx(r)
      BY <1>5, Parameters DEF CommonGiven
    <2>4. CDriverCfg(f, r)
      <3>1. CASE r.schema = 3
        BY <1>2, <1>5, <2>1, <3>1, CommonPart DEF CommonGiven
      <3>2. CASE r.schema # 3
        BY <1>2, <1>5, <2>1, <3>2, CommonPart DEF CommonGiven
      <3>3. QED
        BY <3>1, <3>2
    <2>5. QED
      BY <2>2, <2>3, <2>4
  <1>6. QED
    BY <1>4, <1>5

\* The SIP driver,
LEMMA SipRow ==
  ASSUME NEW f \in Formats, NEW r, IsRow(r)
  PROVE  /\ CDriverCfg(f, r) /\ CSipDriverCfg(f, r) # Throw =>
              SoundDriver(CSipDriverCfg(f, r), r, 1)
         /\ f = FormatOf(r.schema) /\ (CDriverCfg(f, r) => CSipDriverCfg(f, r) = Throw) => Broken(r, 1)
  <1>1. ~Broken(r, 1) <=> /\ CommonGiven(r) /\ State(r, "host") = "ok"
                          /\ NumberGiven(r, "port") /\ NumberGiven(r, "timeout")
    BY BrokenRow, Settings
  <1>2. ASSUME CDriverCfg(f, r), CSipDriverCfg(f, r) # Throw
        PROVE  SoundDriver(CSipDriverCfg(f, r), r, 1)
    <2>1. /\ json(f) => jsonxx(r)
          /\ Given(getRawHost(f, r)) /\ Read(getRawPort(f, r)) /\ Read(getRawTimeout(f, r))
          /\ CSipDriverCfg(f, r) =
               Driver(f, r, 1, getRawHost(f, r), "", getRawPort(f, r), getRawTimeout(f, r))
      BY <1>2, DriverIds DEF CSipDriverCfg
    <2>2. Fits(f, r) /\ CommonGiven(r) /\ getRawUniqId(f, r) = r.id
      BY <1>2, <2>1, FitsWhenRead
    <2>3. State(r, "host") = "ok" /\ getRawHost(f, r) = r.v
      BY <2>1, <2>2, TextSettings
    <2>4. /\ NumberGiven(r, "port") /\ NumberGiven(r, "timeout")
          /\ getRawPort(f, r) \in 0 .. PortMod - 1 /\ getRawTimeout(f, r) \in 0 .. TimeoutMod - 1
          /\ State(r, "port") = "ok" => getRawPort(f, r) = r.n
          /\ State(r, "timeout") = "ok" => getRawTimeout(f, r) = r.n
      BY <2>1, <2>2, NumberSettings DEF NumberGiven
    <2>5. IsDriverOf(CSipDriverCfg(f, r), r, 1) /\ InRange(CSipDriverCfg(f, r))
      <3>1. 1 \in 1 .. 7 /\ 1 # 7 /\ 1 \in {1, 3, 6}
        OBVIOUS
      <3>2. QED
        BY <2>1, <2>2, <2>3, <2>4, <3>1, DriverIsOwn, Zenon
    <2>6. QED
      BY <1>1, <2>2, <2>3, <2>4, <2>5 DEF SoundDriver, Supported
  <1>3. ASSUME f = FormatOf(r.schema), ~Broken(r, 1)
        PROVE  CDriverCfg(f, r) /\ CSipDriverCfg(f, r) # Throw
    <2>1. Fits(f, r) /\ CDriverCfg(f, r) /\ (json(f) => jsonxx(r)) /\ getRawUniqId(f, r) = r.id
      BY <1>1, <1>3, FitsWhenRead
    <2>2. Given(getRawHost(f, r)) /\ getRawHost(f, r) = r.v
      BY <1>1, <1>3, <2>1, TextSettings
    <2>3. /\ Read(getRawPort(f, r)) /\ Read(getRawTimeout(f, r))
          /\ getRawPort(f, r) \in Int /\ getRawTimeout(f, r) \in Int
      BY <1>1, <1>3, <2>1, NumberSettings, ModAssumption DEF NumberGiven
    <2>4. CSipDriverCfg(f, r) =
               Driver(f, r, 1, getRawHost(f, r), "", getRawPort(f, r), getRawTimeout(f, r))
      BY <2>1, <2>2, <2>3, DriverIds DEF CSipDriverCfg
    <2>5. r.v \in Values /\ r.id \in Nat
      BY RowParts
    <2>6. 1 \in 1 .. 7
      OBVIOUS
    <2>7. QED
      BY <2>1, <2>2, <2>3, <2>4, <2>5, <2>6, DriverIsMade, Zenon
  <1>4. QED
    BY <1>2, <1>3

\* ThinQ,
LEMMA ThinqRow ==
  ASSUME NEW f \in Formats, NEW r, IsRow(r)
  PROVE  /\ CDriverCfg(f, r) /\ CHttpThinqDriverCfg(f, r) # Throw =>
              SoundDriver(CHttpThinqDriverCfg(f, r), r, 2)
         /\ f = FormatOf(r.schema) /\ (CDriverCfg(f, r) => CHttpThinqDriverCfg(f, r) = Throw) => Broken(r, 2)
  <1>1. ~Broken(r, 2) <=> /\ CommonGiven(r) /\ State(r, "host") = "ok"
                          /\ State(r, "username") = "ok" /\ State(r, "token") = "ok"
                          /\ NumberGiven(r, "port") /\ NumberGiven(r, "timeout")
    BY BrokenRow, Settings
  <1>2. ASSUME CDriverCfg(f, r), CHttpThinqDriverCfg(f, r) # Throw
        PROVE  SoundDriver(CHttpThinqDriverCfg(f, r), r, 2)
    <2>1. /\ json(f) => jsonxx(r)
          /\ Given(getRawHost(f, r)) /\ Given(getRawUserName(f, r)) /\ Given(ThinqToken(f, r))
          /\ Read(getRawPort(f, r)) /\ Read(getRawTimeout(f, r))
          /\ CHttpThinqDriverCfg(f, r) =
               Driver(f, r, 2, getRawHost(f, r), ThinqToken(f, r), getRawPort(f, r), getRawTimeout(f, r))
      BY <1>2, DriverIds DEF CHttpThinqDriverCfg
    <2>2. Fits(f, r) /\ CommonGiven(r) /\ getRawUniqId(f, r) = r.id
      BY <1>2, <2>1, FitsWhenRead
    <2>3. /\ State(r, "host") = "ok" /\ State(r, "username") = "ok" /\ State(r, "token") = "ok"
          /\ getRawHost(f, r) = r.v /\ ThinqToken(f, r) = r.v
      BY <2>1, <2>2, TextSettings
    <2>4. /\ NumberGiven(r, "port") /\ NumberGiven(r, "timeout")
          /\ getRawPort(f, r) \in 0 .. PortMod - 1 /\ getRawTimeout(f, r) \in 0 .. TimeoutMod - 1
          /\ State(r, "port") = "ok" => getRawPort(f, r) = r.n
          /\ State(r, "timeout") = "ok" => getRawTimeout(f, r) = r.n
      BY <2>1, <2>2, NumberSettings DEF NumberGiven
    <2>5. IsDriverOf(CHttpThinqDriverCfg(f, r), r, 2) /\ InRange(CHttpThinqDriverCfg(f, r))
      <3>1. 2 \in 1 .. 7 /\ 2 # 7 /\ 2 \notin {1, 3, 6}
        OBVIOUS
      <3>2. QED
        BY <2>1, <2>2, <2>3, <2>4, <3>1, DriverIsOwn, Zenon
    <2>6. QED
      BY <1>1, <2>2, <2>3, <2>4, <2>5 DEF SoundDriver, Supported
  <1>3. ASSUME f = FormatOf(r.schema), ~Broken(r, 2)
        PROVE  CDriverCfg(f, r) /\ CHttpThinqDriverCfg(f, r) # Throw
    <2>1. Fits(f, r) /\ CDriverCfg(f, r) /\ (json(f) => jsonxx(r)) /\ getRawUniqId(f, r) = r.id
      BY <1>1, <1>3, FitsWhenRead
    <2>2. /\ Given(getRawHost(f, r)) /\ Given(getRawUserName(f, r)) /\ Given(ThinqToken(f, r))
          /\ getRawHost(f, r) = r.v /\ ThinqToken(f, r) = r.v
      BY <1>1, <1>3, <2>1, TextSettings
    <2>3. /\ Read(getRawPort(f, r)) /\ Read(getRawTimeout(f, r))
          /\ getRawPort(f, r) \in Int /\ getRawTimeout(f, r) \in Int
      BY <1>1, <1>3, <2>1, NumberSettings, ModAssumption DEF NumberGiven
    <2>4. CHttpThinqDriverCfg(f, r) =
               Driver(f, r, 2, getRawHost(f, r), ThinqToken(f, r), getRawPort(f, r), getRawTimeout(f, r))
      BY <2>1, <2>2, <2>3, DriverIds DEF CHttpThinqDriverCfg
    <2>5. r.v \in Values /\ r.id \in Nat
      BY RowParts
    <2>6. 2 \in 1 .. 7
      OBVIOUS
    <2>7. QED
      BY <2>1, <2>2, <2>3, <2>4, <2>5, <2>6, DriverIsMade, Zenon
  <1>4. QED
    BY <1>2, <1>3

\* Alcazar,
LEMMA AlcazarRow ==
  ASSUME NEW f \in Formats, NEW r, IsRow(r)
  PROVE  /\ CDriverCfg(f, r) /\ CHttpAlcazarDriverCfg(f, r) # Throw =>
              SoundDriver(CHttpAlcazarDriverCfg(f, r), r, 4)
         /\ f = FormatOf(r.schema) /\ r.schema \in {2, 3}
           /\ (CDriverCfg(f, r) => CHttpAlcazarDriverCfg(f, r) = Throw) => Broken(r, 4)
  <1>1. ~Broken(r, 4) <=> /\ CommonGiven(r) /\ State(r, "host") = "ok"
                          /\ State(r, "key") = "ok"
                          /\ NumberGiven(r, "port") /\ NumberGiven(r, "timeout")
    BY BrokenRow, Settings
  <1>2. ASSUME CDriverCfg(f, r), CHttpAlcazarDriverCfg(f, r) # Throw
        PROVE  SoundDriver(CHttpAlcazarDriverCfg(f, r), r, 4)
    <2>1. /\ json(f) => jsonxx(r)
          /\ Given(getRawHost(f, r)) /\ Given(AlcazarKey(f, r))
          /\ Read(getRawPort(f, r)) /\ Read(getRawTimeout(f, r))
          /\ CHttpAlcazarDriverCfg(f, r) =
               Driver(f, r, 4, getRawHost(f, r), AlcazarKey(f, r), getRawPort(f, r), getRawTimeout(f, r))
      BY <1>2, DriverIds DEF CHttpAlcazarDriverCfg
    <2>2. Fits(f, r) /\ CommonGiven(r) /\ getRawUniqId(f, r) = r.id
      BY <1>2, <2>1, FitsWhenRead
    <2>3. /\ State(r, "host") = "ok" /\ State(r, "key") = "ok"
          /\ getRawHost(f, r) = r.v /\ AlcazarKey(f, r) = r.v /\ r.schema # 1
      BY <2>1, <2>2, TextSettings, KeySetting
    <2>4. /\ NumberGiven(r, "port") /\ NumberGiven(r, "timeout")
          /\ getRawPort(f, r) \in 0 .. PortMod - 1 /\ getRawTimeout(f, r) \in 0 .. TimeoutMod - 1
          /\ State(r, "port") = "ok" => getRawPort(f, r) = r.n
          /\ State(r, "timeout") = "ok" => getRawTimeout(f, r) = r.n
      BY <2>1, <2>2, NumberSettings DEF NumberGiven
    <2>5. IsDriverOf(CHttpAlcazarDriverCfg(f, r), r, 4) /\ InRange(CHttpAlcazarDriverCfg(f, r))
      <3>1. 4 \in 1 .. 7 /\ 4 # 7 /\ 4 \notin {1, 3, 6}
        OBVIOUS
      <3>2. QED
        BY <2>1, <2>2, <2>3, <2>4, <3>1, DriverIsOwn, Zenon
    <2>6. Supported(r.schema, 4)
      BY <2>2, <2>3, RowParts DEF Supported, CommonGiven
    <2>7. QED
      BY <1>1, <2>2, <2>3, <2>4, <2>5, <2>6 DEF SoundDriver
  <1>3. ASSUME f = FormatOf(r.schema), r.schema \in {2, 3}, ~Broken(r, 4)
        PROVE  CDriverCfg(f, r) /\ CHttpAlcazarDriverCfg(f, r) # Throw
    <2>1. Fits(f, r) /\ CDriverCfg(f, r) /\ (json(f) => jsonxx(r)) /\ getRawUniqId(f, r) = r.id
      BY <1>1, <1>3, FitsWhenRead
    <2>2. f # ECONFIG_DATA_AS_SEPARATE_COLUMN_V1 /\ r.schema # 1
      BY <1>3 DEF FormatOf, ECONFIG_DATA_AS_SEPARATE_COLUMN_V1, ECONFIG_DATA_INVALID
    <2>3. /\ Given(getRawHost(f, r)) /\ Given(AlcazarKey(f, r))
          /\ getRawHost(f, r) = r.v /\ AlcazarKey(f, r) = r.v
      BY <1>1, <1>3, <2>1, <2>2, TextSettings, KeySetting
    <2>4. /\ Read(getRawPort(f, r)) /\ Read(getRawTimeout(f, r))
          /\ getRawPort(f, r) \in Int /\ getRawTimeout(f, r) \in Int
      BY <1>1, <1>3, <2>1, NumberSettings, ModAssumption DEF NumberGiven
    <2>5. CHttpAlcazarDriverCfg(f, r) =
               Driver(f, r, 4, getRawHost(f, r), AlcazarKey(f, r), getRawPort(f, r), getRawTimeout(f, r))
      BY <2>1, <2>3, <2>4, DriverIds DEF CHttpAlcazarDriverCfg
    <2>6. r.v \in Values /\ r.id \in Nat
      BY RowParts
    <2>7. 4 \in 1 .. 7
      OBVIOUS
    <2>8. QED
      BY <2>1, <2>3, <2>4, <2>5, <2>6, <2>7, DriverIsMade, Zenon
  <1>4. QED
    BY <1>2, <1>3

\* the CSV driver,
LEMMA CsvRow ==
  ASSUME NEW f \in Formats, NEW r, IsRow(r)
  PROVE  /\ CDriverCfg(f, r) /\ CMhashCsvDriver(f, r) # Throw =>
              SoundDriver(CMhashCsvDriver(f, r), r, 3)
         /\ f = FormatOf(r.schema) /\ (CDriverCfg(f, r) => CMhashCsvDriver(f, r) = Throw) => Broken(r, 3)
  <1>1. ~Broken(r, 3) <=> CommonGiven(r) /\ State(r, "csv_file_path") = "ok" /\ r.csv
    BY BrokenRow, Settings
  <1>2. 3 \in 1 .. 7 /\ 3 # 7 /\ 3 \in {1, 3, 6}
    OBVIOUS
  <1>3. 0 \in Int /\ 0 \in 0 .. PortMod - 1 /\ 0 \in 0 .. TimeoutMod - 1
    BY ModAssumption
  <1>4. "port" \notin Numbers[3] /\ "timeout" \notin Numbers[3]
    BY Settings
  <1>5. ASSUME CDriverCfg(f, r), CMhashCsvDriver(f, r) # Throw
        PROVE  SoundDriver(CMhashCsvDriver(f, r), r, 3)
    <2>1. /\ json(f) => jsonxx(r)
          /\ Given(getRawFilePath(f, r)) /\ r.csv
          /\ CMhashCsvDriver(f, r) = Driver(f, r, 3, getRawFilePath(f, r), "", 0, 0)
      BY <1>5, DriverIds DEF CMhashCsvDriver
    <2>2. Fits(f, r) /\ CommonGiven(r) /\ getRawUniqId(f, r) = r.id
      BY <1>5, <2>1, FitsWhenRead
    <2>3. State(r, "csv_file_path") = "ok" /\ getRawFilePath(f, r) = r.v
      BY <2>1, <2>2, TextSettings
    <2>4. IsDriverOf(CMhashCsvDriver(f, r), r, 3) /\ InRange(CMhashCsvDriver(f, r))
      BY <1>2, <1>3, <1>4, <2>1, <2>2, <2>3, DriverIsOwn, Zenon
    <2>5. ~Broken(r, 3)
      BY <1>1, <2>1, <2>2, <2>3, Zenon
    <2>6. Supported(r.schema, 3)
      BY DEF Supported
    <2>7. QED
      BY <2>4, <2>5, <2>6 DEF SoundDriver
  <1>6. ASSUME f = FormatOf(r.schema), ~Broken(r, 3)
        PROVE  CDriverCfg(f, r) /\ CMhashCsvDriver(f, r) # Throw
    <2>1. Fits(f, r) /\ CDriverCfg(f, r) /\ (json(f) => jsonxx(r)) /\ getRawUniqId(f, r) = r.id
      BY <1>1, <1>6, FitsWhenRead
    <2>2. Given(getRawFilePath(f, r)) /\ getRawFilePath(f, r) = r.v
      BY <1>1, <1>6, <2>1, TextSettings
    <2>3. CMhashCsvDriver(f, r) = Driver(f, r, 3, getRawFilePath(f, r), "", 0, 0)
      BY <1>1, <1>6, <2>1, <2>2, DriverIds DEF CMhashCsvDriver
    <2>4. r.v \in Values /\ r.id \in Nat
      BY RowParts
    <2>5. QED
      BY <1>2, <1>3, <2>1, <2>2, <2>3, <2>4, DriverIsMade, Zenon
  <1>7. QED
    BY <1>5, <1>6

\* The timeout of the drivers that only the JSON format has.
LEMMA JsonTimeout ==
  ASSUME NEW r, IsRow(r), r.schema = 3
  PROVE  LET checked == getJsonNumber(r, "timeout", TimeoutMod)
             cast == item_number(r, "timeout", TimeoutMod)
         IN /\ Read(checked) <=> r.cell["timeout"] \in {"ok", "outside"}
            /\ Read(checked) => checked \in 0 .. TimeoutMod - 1 /\ checked \in Int
            /\ Read(cast) <=> r.cell["timeout"] # "absent"
            /\ Read(cast) => cast \in 0 .. TimeoutMod - 1 /\ cast \in Int
            /\ State(r, "timeout") = "ok" => checked = r.n /\ cast = r.n
  <1>1. r.n \in 0 .. TimeoutMod - 1 /\ State(r, "timeout") = r.cell["timeout"]
    BY RowParts DEF State
  <1>2. TimeoutMod \in Nat /\ TimeoutMod # 0 /\ \A n \in 0 .. TimeoutMod - 1 : n \in Int
    BY ModAssumption
  <1>3. QED
    BY <1>1, <1>2, NumberItem

\* Coure ANQ,
LEMMA CoureAnqRow ==
  ASSUME NEW f \in Formats, NEW r, IsRow(r)
  PROVE  /\ CDriverCfg(f, r) /\ CHttpCoureAnqDriverCfg(f, r) # Throw =>
              SoundDriver(CHttpCoureAnqDriverCfg(f, r), r, 5)
         /\ f = FormatOf(r.schema) /\ (CDriverCfg(f, r) => CHttpCoureAnqDriverCfg(f, r) = Throw)
              => Broken(r, 5)
  <1> DEFINE timeout == getJsonNumber(r, "timeout", TimeoutMod)
  <1>1. ~Broken(r, 5) <=>
          /\ r.schema = 3 /\ CommonGiven(r)
          /\ \A k \in {"base_url", "username", "password", "country_code"} : r.cell[k] = "ok"
          /\ r.cell["timeout"] \in {"ok", "outside"} /\ r.cell["operators_map"] = "ok"
    <2>1. 5 \in 5 .. 7 /\ 5 # 7 /\ 3 # 4
      OBVIOUS
    <2>2. CASE r.schema = 3
      <3>1. Texts[5] = {"base_url", "username", "password", "country_code"}
        BY Settings
      <3>2. ~Broken(r, 5) <=>
              /\ CommonGiven(r) /\ (\A k \in Texts[5] : r.cell[k] = "ok")
              /\ r.cell["timeout"] \in {"ok", "outside"} /\ r.cell["operators_map"] = "ok"
        BY <2>1, <2>2, BrokenJsonRow
      <3>3. QED
        BY <2>2, <3>1, <3>2
    <2>3. CASE r.schema # 3
      BY <2>1, <2>3, BrokenJsonRow, Zenon
    <2>4. QED
      BY <2>2, <2>3
  <1>2. 5 \in 1 .. 7 /\ 5 # 7 /\ 5 \notin {1, 3, 6}
    OBVIOUS
  <1>3. 0 \in Int /\ 0 \in 0 .. PortMod - 1
    BY ModAssumption
  <1>4. "port" \notin Numbers[5]
    BY Settings
  <1>5. \A k : /\ Given(getJsonString(r, k)) <=> r.cell[k] = "ok"
               /\ r.cell[k] = "ok" => getJsonString(r, k) = r.v
    BY TextItem
  <1>6. ASSUME CDriverCfg(f, r), CHttpCoureAnqDriverCfg(f, r) # Throw
        PROVE  SoundDriver(CHttpCoureAnqDriverCfg(f, r), r, 5)
    <2>1. /\ json(f) /\ jsonxx(r) /\ Read(timeout) /\ r.cell["operators_map"] = "ok"
          /\ \A k \in {"base_url", "username", "password", "country_code"} : Given(getJsonString(r, k))
          /\ CHttpCoureAnqDriverCfg(f, r) =
               Driver(f, r, 5, getJsonString(r, "base_url"), getJsonString(r, "password"), 0, timeout)
      BY <1>6, DriverIds DEF CHttpCoureAnqDriverCfg
    <2>2. r.schema = 3 /\ CommonGiven(r) /\ getRawUniqId(f, r) = r.id
      BY <1>6, <2>1, FitsWhenRead
    <2>3. /\ \A k \in {"base_url", "username", "password", "country_code"} : r.cell[k] = "ok"
          /\ getJsonString(r, "base_url") = r.v /\ getJsonString(r, "password") = r.v
      BY <1>5, <2>1
    <2>4. /\ r.cell["timeout"] \in {"ok", "outside"} /\ timeout \in 0 .. TimeoutMod - 1
          /\ State(r, "timeout") = "ok" => timeout = r.n
      BY <2>1, <2>2, JsonTimeout
    <2>5. IsDriverOf(CHttpCoureAnqDriverCfg(f, r), r, 5) /\ InRange(CHttpCoureAnqDriverCfg(f, r))
      BY <1>2, <1>3, <1>4, <2>1, <2>2, <2>3, <2>4, DriverIsOwn, Zenon
    <2>6. QED
      BY <1>1, <2>1, <2>2, <2>3, <2>4, <2>5 DEF SoundDriver, Supported
  <1>7. ASSUME f = FormatOf(r.schema), ~Broken(r, 5)
        PROVE  CDriverCfg(f, r) /\ CHttpCoureAnqDriverCfg(f, r) # Throw
    <2>1. /\ CDriverCfg(f, r) /\ json(f) /\ jsonxx(r) /\ getRawUniqId(f, r) = r.id
      BY <1>1, <1>7, FitsWhenRead
    <2>2. /\ \A k \in {"base_url", "username", "password", "country_code"} : Given(getJsonString(r, k))
          /\ getJsonString(r, "base_url") = r.v /\ getJsonString(r, "password") = r.v
      BY <1>1, <1>5, <1>7
    <2>3. Read(timeout) /\ timeout \in Int /\ r.cell["operators_map"] = "ok"
      BY <1>1, <1>7, JsonTimeout
    <2>4. CHttpCoureAnqDriverCfg(f, r) =
            Driver(f, r, 5, getJsonString(r, "base_url"), getJsonString(r, "password"), 0, timeout)
      BY <2>1, <2>2, <2>3, DriverIds DEF CHttpCoureAnqDriverCfg
    <2>5. r.v \in Values /\ r.id \in Nat
      BY RowParts
    <2>6. QED
      BY <1>2, <1>3, <2>1, <2>2, <2>3, <2>4, <2>5, DriverIsMade, Zenon
  <1>8. QED
    BY <1>6, <1>7

\* CNAM,
LEMMA CnamRow ==
  ASSUME NEW f \in Formats, NEW r, IsRow(r)
  PROVE  /\ CDriverCfg(f, r) /\ CCnamHttpDriverCfg(f, r) # Throw =>
              SoundDriver(CCnamHttpDriverCfg(f, r), r, 6)
         /\ f = FormatOf(r.schema) /\ (CDriverCfg(f, r) => CCnamHttpDriverCfg(f, r) = Throw)
              => Broken(r, 6)
  <1> DEFINE timeout == getJsonNumber(r, "timeout", TimeoutMod)
  <1>1. ~Broken(r, 6) <=> /\ r.schema = 3 /\ CommonGiven(r) /\ r.cell["url"] = "ok"
                          /\ r.cell["timeout"] \in {"ok", "outside"}
    <2>1. 6 \in 5 .. 7 /\ 6 # 7 /\ 6 # 5 /\ 3 # 4
      OBVIOUS
    <2>2. CASE r.schema = 3
      <3>1. Texts[6] = {"url"}
        BY Settings
      <3>2. ~Broken(r, 6) <=>
              /\ CommonGiven(r) /\ (\A k \in Texts[6] : r.cell[k] = "ok")
              /\ r.cell["timeout"] \in {"ok", "outside"}
        BY <2>1, <2>2, BrokenJsonRow
      <3>3. QED
        BY <2>2, <3>1, <3>2
    <2>3. CASE r.schema # 3
      BY <2>1, <2>3, BrokenJsonRow, Zenon
    <2>4. QED
      BY <2>2, <2>3
  <1>2. 6 \in 1 .. 7 /\ 6 # 7 /\ 6 \in {1, 3, 6}
    OBVIOUS
  <1>3. 0 \in Int /\ 0 \in 0 .. PortMod - 1
    BY ModAssumption
  <1>4. "port" \notin Numbers[6]
    BY Settings
  <1>5. \A k : /\ Given(getJsonString(r, k)) <=> r.cell[k] = "ok"
               /\ r.cell[k] = "ok" => getJsonString(r, k) = r.v
    BY TextItem
  <1>6. ASSUME CDriverCfg(f, r), CCnamHttpDriverCfg(f, r) # Throw
        PROVE  SoundDriver(CCnamHttpDriverCfg(f, r), r, 6)
    <2>1. /\ json(f) /\ jsonxx(r) /\ Read(timeout) /\ Given(getJsonString(r, "url"))
          /\ CCnamHttpDriverCfg(f, r) = Driver(f, r, 6, getJsonString(r, "url"), "", 0, timeout)
      BY <1>6, DriverIds DEF CCnamHttpDriverCfg
    <2>2. r.schema = 3 /\ CommonGiven(r) /\ getRawUniqId(f, r) = r.id
      BY <1>6, <2>1, FitsWhenRead
    <2>3. r.cell["url"] = "ok" /\ getJsonString(r, "url") = r.v
      BY <1>5, <2>1
    <2>4. /\ r.cell["timeout"] \in {"ok", "outside"} /\ timeout \in 0 .. TimeoutMod - 1
          /\ State(r, "timeout") = "ok" => timeout = r.n
      BY <2>1, <2>2, JsonTimeout
    <2>5. IsDriverOf(CCnamHttpDriverCfg(f, r), r, 6) /\ InRange(CCnamHttpDriverCfg(f, r))
      BY <1>2, <1>3, <1>4, <2>1, <2>2, <2>3, <2>4, DriverIsOwn, Zenon
    <2>6. QED
      BY <1>1, <2>1, <2>2, <2>3, <2>4, <2>5 DEF SoundDriver, Supported
  <1>7. ASSUME f = FormatOf(r.schema), ~Broken(r, 6)
        PROVE  CDriverCfg(f, r) /\ CCnamHttpDriverCfg(f, r) # Throw
    <2>1. CDriverCfg(f, r) /\ json(f) /\ jsonxx(r) /\ getRawUniqId(f, r) = r.id
      BY <1>1, <1>7, FitsWhenRead
    <2>2. Given(getJsonString(r, "url")) /\ getJsonString(r, "url") = r.v
      BY <1>1, <1>5, <1>7
    <2>3. Read(timeout) /\ timeout \in Int
      BY <1>1, <1>7, JsonTimeout
    <2>4. CCnamHttpDriverCfg(f, r) = Driver(f, r, 6, getJsonString(r, "url"), "", 0, timeout)
      BY <2>1, <2>2, <2>3, DriverIds DEF CCnamHttpDriverCfg
    <2>5. r.v \in Values /\ r.id \in Nat
      BY RowParts
    <2>6. QED
      BY <1>2, <1>3, <2>1, <2>2, <2>3, <2>4, <2>5, DriverIsMade, Zenon
  <1>8. QED
    BY <1>6, <1>7

\* and BulkVS, which is made of nothing outside the JSON format.
LEMMA BulkvsRow ==
  ASSUME NEW f \in Formats, NEW r, IsRow(r)
  PROVE  /\ CDriverCfg(f, r) /\ CHttpBulkvsDriverCfg(f, r) # Throw =>
              SoundDriver(CHttpBulkvsDriverCfg(f, r), r, 7)
         /\ f = FormatOf(r.schema) /\ (CDriverCfg(f, r) => CHttpBulkvsDriverCfg(f, r) = Throw)
              => Broken(r, 7)
  <1> DEFINE timeout == item_number(r, "timeout", TimeoutMod)
             good == /\ r.cell["url"] = "ok" /\ r.cell["token"] = "ok"
                     /\ r.cell["timeout"] # "absent"
                     /\ r.cell["validate_https_certificate"] # "absent"
             d == CHttpBulkvsDriverCfg(f, r)
  <1>1. ~Broken(r, 7) <=> CommonGiven(r) /\ (r.schema = 3 => good)
    <2>1. 7 \in 5 .. 7 /\ 7 # 5 /\ 3 # 4
      OBVIOUS
    <2>2. CASE r.schema = 3
      <3>1. Texts[7] = {"url", "token"}
        BY Settings
      <3>2. ~Broken(r, 7) <=>
              /\ CommonGiven(r) /\ (\A k \in Texts[7] : r.cell[k] = "ok")
              /\ r.cell["timeout"] # "absent"
              /\ r.cell["validate_https_certificate"] # "absent"
        BY <2>1, <2>2, BrokenJsonRow
      <3>3. QED
        BY <2>2, <3>1, <3>2
    <2>3. CASE r.schema # 3
      BY <2>1, <2>3, BrokenJsonRow, Zenon DEF CommonGiven
    <2>4. QED
      BY <2>2, <2>3
  <1>2. 7 \in 1 .. 7 /\ 7 \notin {1, 3, 6}
    OBVIOUS
  <1>3. 0 \in Int /\ 0 \in 0 .. PortMod - 1
    BY ModAssumption
  <1>4. "port" \notin Numbers[7]
    BY Settings
  <1>5. \A k : /\ Given(item_string(r, k)) <=> r.cell[k] = "ok"
               /\ r.cell[k] = "ok" => item_string(r, k) = r.v
    BY TextItem
  <1>6. /\ ~json(f) => d = Driver(f, r, 7, "", "", 0, Unset)
        /\ json(f) =>
             IF /\ jsonxx(r) /\ Given(item_string(r, "url")) /\ Given(item_string(r, "token"))
                /\ Read(timeout) /\ r.cell["validate_https_certificate"] # "absent"
             THEN d = Driver(f, r, 7, item_string(r, "url"), item_string(r, "token"), 0, timeout)
             ELSE d = Throw
    BY DriverIds DEF CHttpBulkvsDriverCfg
  <1>7. r.v \in Values /\ r.id \in Nat
    BY RowParts
  <1> HIDE DEF d, timeout
  <1>8. ASSUME CDriverCfg(f, r), d # Throw
        PROVE  SoundDriver(d, r, 7)
    <2>1. json(f) => /\ jsonxx(r) /\ Given(item_string(r, "url")) /\ Given(item_string(r, "token"))
                     /\ Read(timeout) /\ r.cell["validate_https_certificate"] # "absent"
                     /\ d = Driver(f, r, 7, item_string(r, "url"), item_string(r, "token"), 0, timeout)
      BY <1>6, <1>8
    <2>2. CommonGiven(r) /\ getRawUniqId(f, r) = r.id /\ (json(f) <=> r.schema = 3)
      BY <1>8, <2>1, FitsWhenRead
    <2>3. CASE json(f)
      <3>1. r.cell["url"] = "ok" /\ item_string(r, "url") = r.v
        BY <1>5, <2>1, <2>3
      <3>2. r.cell["token"] = "ok" /\ item_string(r, "token") = r.v
        BY <1>5, <2>1, <2>3
      <3>3. /\ r.cell["timeout"] # "absent" /\ timeout \in 0 .. TimeoutMod - 1
            /\ State(r, "timeout") = "ok" => timeout = r.n
        BY <2>1, <2>2, <2>3, JsonTimeout DEF timeout
      <3>4. IsDriverOf(d, r, 7) /\ InRange(d)
        BY <1>2, <1>3, <1>4, <2>1, <2>2, <2>3, <3>1, <3>2, <3>3, DriverIsOwn, Zenon
      <3>5. QED
        BY <1>1, <2>1, <2>2, <2>3, <3>1, <3>2, <3>3, <3>4 DEF SoundDriver, Supported
    <2>4. CASE ~json(f)
      <3>1. PICK e : e = d
        OBVIOUS
      <3>2. e = Driver(f, r, 7, "", "", 0, Unset)
        BY <1>6, <2>4, <3>1
      <3>3. /\ e.type = 7 /\ e.id = getRawUniqId(f, r) /\ e.addr = "" /\ e.secret = ""
            /\ e.port = 0 /\ e.timeout = Unset
        BY <3>2 DEF Driver
      <3>4. InRange(e)
        BY <1>3, <3>3, Zenon DEF InRange
      <3>5. 7 = ECDriverId.HTTP_BULKVS /\ r.schema # 3
        BY <2>2, <2>4, DriverIds
      <3>6. IsDriverOf(e, r, 7)
        BY <1>4, <2>2, <3>3, <3>5, Zenon DEF IsDriverOf
      <3>7. QED
        BY <1>1, <2>2, <2>4, <3>1, <3>4, <3>6 DEF SoundDriver, Supported
    <2>5. QED
      BY <2>3, <2>4
  <1>9. ASSUME f = FormatOf(r.schema), ~Broken(r, 7)
        PROVE  CDriverCfg(f, r) /\ d # Throw
    <2>1. /\ CDriverCfg(f, r) /\ (json(f) => jsonxx(r)) /\ (json(f) <=> r.schema = 3)
          /\ getRawUniqId(f, r) = r.id
      BY <1>1, <1>9, FitsWhenRead
    <2>2. CASE json(f)
      <3>1. good
        BY <1>1, <1>9, <2>1, <2>2
      <3>2. Given(item_string(r, "url")) /\ item_string(r, "url") = r.v
        BY <1>5, <3>1
      <3>3. Given(item_string(r, "token")) /\ item_string(r, "token") = r.v
        BY <1>5, <3>1
      <3>4. Read(timeout) /\ timeout \in Int
        BY <2>1, <2>2, <3>1, JsonTimeout DEF timeout
      <3>5. d = Driver(f, r, 7, item_string(r, "url"), item_string(r, "token"), 0, timeout)
        BY <1>6, <2>1, <2>2, <3>1, <3>2, <3>3, <3>4
      <3>6. QED
        BY <1>2, <1>3, <1>7, <2>1, <3>2, <3>3, <3>4, <3>5, DriverIsMade, Zenon
    <2>3. CASE ~json(f)
      BY <1>2, <1>3, <1>6, <1>7, <2>1, <2>3, DriverIsMade, Zenon
    <2>4. QED
      BY <2>1, <2>2, <2>3
  <1>10. QED
    BY <1>8, <1>9 DEF d

\* A driver that is made is the row's own, whatever the format in use;
LEMMA MadeIsSound ==
  ASSUME NEW f \in Formats, NEW r, IsRow(r), NEW type \in 1 .. 7,
         instantiate(f, r, type) # Throw
  PROVE  SoundDriver(instantiate(f, r, type), r, type)
  <1>1. CDriverCfg(f, r)
    BY DEF instantiate
  <1>2. \/ type = 1 \/ type = 2 \/ type = 3 \/ type = 4 \/ type = 5 \/ type = 6 \/ type = 7
    OBVIOUS
  <1>3. CASE type = 1
    <2>1. instantiate(f, r, type) = CSipDriverCfg(f, r)
      BY <1>1, <1>3, DriverIds DEF instantiate
    <2>2. QED
      BY <1>1, <1>3, <2>1, SipRow
  <1>4. CASE type = 2
    <2>1. instantiate(f, r, type) = CHttpThinqDriverCfg(f, r)
      BY <1>1, <1>4, DriverIds DEF instantiate
    <2>2. QED
      BY <1>1, <1>4, <2>1, ThinqRow
  <1>5. CASE type = 3
    <2>1. instantiate(f, r, type) = CMhashCsvDriver(f, r)
      BY <1>1, <1>5, DriverIds DEF instantiate
    <2>2. QED
      BY <1>1, <1>5, <2>1, CsvRow
  <1>6. CASE type = 4
    <2>1. instantiate(f, r, type) = CHttpAlcazarDriverCfg(f, r)
      BY <1>1, <1>6, DriverIds DEF instantiate
    <2>2. QED
      BY <1>1, <1>6, <2>1, AlcazarRow
  <1>7. CASE type = 5
    <2>1. instantiate(f, r, type) = CHttpCoureAnqDriverCfg(f, r)
      BY <1>1, <1>7, DriverIds DEF instantiate
    <2>2. QED
      BY <1>1, <1>7, <2>1, CoureAnqRow
  <1>8. CASE type = 6
    <2>1. instantiate(f, r, type) = CCnamHttpDriverCfg(f, r)
      BY <1>1, <1>8, DriverIds DEF instantiate
    <2>2. QED
      BY <1>1, <1>8, <2>1, CnamRow
  <1>9. CASE type = 7
    <2>1. instantiate(f, r, type) = CHttpBulkvsDriverCfg(f, r)
      BY <1>1, <1>9, DriverIds DEF instantiate
    <2>2. QED
      BY <1>1, <1>9, <2>1, BulkvsRow
  <1>10. QED
    BY <1>2, <1>3, <1>4, <1>5, <1>6, <1>7, <1>8, <1>9

\* and in the table's own format none is refused but for a reason of the row's.
LEMMA ThrownIsBroken ==
  ASSUME NEW r, IsRow(r), FormatOf(r.schema) \in Formats, NEW type \in 1 .. 7,
         type = 4 => r.schema \in {2, 3},
         instantiate(FormatOf(r.schema), r, type) = Throw
  PROVE  Broken(r, type)
  <1> DEFINE f == FormatOf(r.schema)
  <1>1. \/ type = 1 \/ type = 2 \/ type = 3 \/ type = 4 \/ type = 5 \/ type = 6 \/ type = 7
    OBVIOUS
  <1>2. f \in Formats /\ f = FormatOf(r.schema) /\ instantiate(f, r, type) = Throw
    OBVIOUS
  <1> HIDE DEF f
  <1>3. CASE type = 1
    <2>1. CDriverCfg(f, r) => CSipDriverCfg(f, r) = Throw
      BY <1>2, <1>3, DriverIds DEF instantiate
    <2>2. QED
      BY <1>2, <1>3, <2>1, SipRow
  <1>4. CASE type = 2
    <2>1. CDriverCfg(f, r) => CHttpThinqDriverCfg(f, r) = Throw
      BY <1>2, <1>4, DriverIds DEF instantiate
    <2>2. QED
      BY <1>2, <1>4, <2>1, ThinqRow
  <1>5. CASE type = 3
    <2>1. CDriverCfg(f, r) => CMhashCsvDriver(f, r) = Throw
      BY <1>2, <1>5, DriverIds DEF instantiate
    <2>2. QED
      BY <1>2, <1>5, <2>1, CsvRow
  <1>6. CASE type = 4
    <2>1. CDriverCfg(f, r) => CHttpAlcazarDriverCfg(f, r) = Throw
      BY <1>2, <1>6, DriverIds DEF instantiate
    <2>2. QED
      BY <1>2, <1>6, <2>1, AlcazarRow
  <1>7. CASE type = 5
    <2>1. CDriverCfg(f, r) => CHttpCoureAnqDriverCfg(f, r) = Throw
      BY <1>2, <1>7, DriverIds DEF instantiate
    <2>2. QED
      BY <1>2, <1>7, <2>1, CoureAnqRow
  <1>8. CASE type = 6
    <2>1. CDriverCfg(f, r) => CCnamHttpDriverCfg(f, r) = Throw
      BY <1>2, <1>8, DriverIds DEF instantiate
    <2>2. QED
      BY <1>2, <1>8, <2>1, CnamRow
  <1>9. CASE type = 7
    <2>1. CDriverCfg(f, r) => CHttpBulkvsDriverCfg(f, r) = Throw
      BY <1>2, <1>9, DriverIds DEF instantiate
    <2>2. QED
      BY <1>2, <1>9, <2>1, BulkvsRow
  <1>10. QED
    BY <1>1, <1>3, <1>4, <1>5, <1>6, <1>7, <1>8, <1>9

\* The format is the first one that was detected, or the row's own.
LEMMA Detected ==
  ASSUME NEW f \in Formats, NEW r, IsRow(r)
  PROVE  /\ detect(f, r) \in Formats
         /\ f # 0 => detect(f, r) = f
         /\ f = 0 => detect(f, r) = FormatOf(r.schema)
  <1>1. f \in 0 .. 3 /\ r.schema \in {1, 2, 3, 4}
    BY RowParts DEF Formats, ECONFIG_DATA_INVALID, ECONFIG_DATA_AS_JSON_STRING
  <1>2. CASE f # 0
    BY <1>1, <1>2 DEF detect, ECONFIG_DATA_INVALID
  <1>3. CASE f = 0
    <2>1. /\ "parameters" \in Columns[r.schema] <=> r.schema = 3
          /\ "o_alkazar_key" \in Columns[r.schema] <=> r.schema = 2
          /\ "o_thinq_token" \in Columns[r.schema] <=> r.schema \in {1, 2}
      BY <1>1, ColumnsOfSchemas DEF V1Columns
    <2>2. detect(f, r) = FormatOf(r.schema)
      BY <1>1, <1>3, <2>1
         DEF detect, FormatOf, ECONFIG_DATA_INVALID, ECONFIG_DATA_AS_JSON_STRING,
             ECONFIG_DATA_AS_SEPARATE_COLUMN_V1, ECONFIG_DATA_AS_SEPARATE_COLUMN_V2
    <2>3. FormatOf(r.schema) \in Formats
      BY <1>1 DEF FormatOf, Formats, ECONFIG_DATA_INVALID, ECONFIG_DATA_AS_JSON_STRING
    <2>4. QED
      BY <1>3, <2>2, <2>3
  <1>4. QED
    BY <1>2, <1>3

\* The identifier: a type of the list is itself, or NULL where it is not
\* supported.
LEMMA Identifiers ==
  ASSUME NEW f \in Formats, NEW r, IsRow(r), NEW id \in getID(f, r)
  PROVE  /\ id \in 0 .. 7
         /\ id # 0 => r.type \in {id, 8} /\ (id = 4 => f >= 2)
         /\ id = 0 /\ r.type \in 0 .. 7 => \/ r.type = 0
                                           \/ r.type = 4 /\ f <= 1
  <1>1. f \in 0 .. 3 /\ r.type \in 0 .. 8
    BY RowParts DEF Formats, ECONFIG_DATA_INVALID, ECONFIG_DATA_AS_JSON_STRING
  <1>2. PICK d \in 0 .. 8 :
          /\ id = IF d >= 8 \/ (d = 4 /\ f <= 1) THEN 0 ELSE d
          /\ r.type \in 0 .. 7 => d = r.type
    BY <1>1, DriverIds DEF getID, ECONFIG_DATA_AS_SEPARATE_COLUMN_V1
  <1>3. QED
    BY <1>1, <1>2

-----------------------------------------------------------------------------
(***************************************************************************)
(* The inductive invariant.                                                *)
(***************************************************************************)

\* A map of drivers, in use or being made: each of them could serve at once.
MapReady(m, exp, ser, s) ==
  \A id \in DOMAIN m :
    /\ m[id].id = id /\ m[id].type \in 1 .. 7 /\ InRange(m[id])
    /\ exp => <<m[id].type, id>> \in ser
    /\ m[id].type = 1 => s.client = "made" /\ s.identity = "cfg"

SipSound ==
  /\ sip = [isConfigured |-> sip.isConfigured, static |-> sip.static, client |-> sip.client,
            identity |-> sip.identity]
  /\ sip.isConfigured \in BOOLEAN /\ sip.client \in {"none", "made"}
  /\ sip.isConfigured => sip.static = "cfg"

LoadShape ==
  /\ load = [on |-> load.on, table |-> load.table, i |-> load.i, dbMap |-> load.dbMap]
  /\ load.on \in BOOLEAN
  /\ load.on => load.table \in Tables /\ load.i \in Nat /\ load.i >= 1

ReadyInv ==
  /\ phase \in {"starting", "serving", "ended"}
  /\ sConfigType \in Formats /\ exporter \in BOOLEAN /\ loads \in 0 .. MaxLoads
  /\ SipSound /\ LoadShape
  /\ MapReady(mDriversMap, exporter, series, sip)
  /\ MapReady(load.dbMap, exporter, series, sip)

\* The rows before i, read in format fm, made the map m: those that are used
\* under some reading of the types, the first of each id.
UsedTo(t, c, i) == {k \in Used(t, c) : k < i}

IsMapTo(m, t, c, i) ==
  /\ DOMAIN m = {t[k].id : k \in UsedTo(t, c, i)}
  /\ \A k \in UsedTo(t, c, i) : (\A l \in UsedTo(t, c, i) : t[l].id = t[k].id => k <= l)
                                => IsDriverOf(m[t[k].id], t[k], c[k])

PrefixRead(fm, t, i, m) ==
  (\A k \in DOMAIN t : k < i => fm = FormatOf(t[k].schema)) =>
    \E c \in Readings(t) :
      (\A k \in UsedTo(t, c, i) : ~Broken(t[k], c[k])) /\ IsMapTo(m, t, c, i)

\* Every driver is that of a row.
OwnRows(t, m) ==
  \A id \in DOMAIN m : \E k \in DOMAIN t, type \in 1 .. 7 :
    t[k].type \in {type, 8} /\ SoundDriver(m[id], t[k], type)

\* No format was detected: no row had the columns of one.
NoneDetected(fm, t, i) == fm = 0 => \A k \in DOMAIN t : k < i => t[k].schema = 4

\* The types of the rows read were in range.
NumberedTo(t, i) == \A k \in DOMAIN t : k < i => ~getID_throws(t[k])

TableInv ==
  load.on => /\ NumberedTo(load.table, load.i)
             /\ PrefixRead(sConfigType, load.table, load.i, load.dbMap)
             /\ OwnRows(load.table, load.dbMap)
             /\ NoneDetected(sConfigType, load.table, load.i)

-----------------------------------------------------------------------------
(***************************************************************************)
(* The drivers are ready.                                                  *)
(***************************************************************************)

\* A map stays ready while series are added and the identity stays.
LEMMA ReadyStays ==
  ASSUME NEW m, NEW exp, NEW ser, NEW s, NEW ser2, NEW s2, MapReady(m, exp, ser, s),
         ser \subseteq ser2,
         s.client = "made" /\ s.identity = "cfg" => s2.client = "made" /\ s2.identity = "cfg"
  PROVE  MapReady(m, exp, ser2, s2)
  BY DEF MapReady

\* An empty map is ready.
LEMMA NobodyIsReady ==
  ASSUME NEW exp, NEW ser, NEW s
  PROVE  MapReady(Nobody, exp, ser, s)
  BY DEF MapReady, Nobody

\* What emplace() does.
LEMMA Emplaced ==
  ASSUME NEW m, NEW d
  PROVE  /\ DOMAIN emplace(m, d) = DOMAIN m \union {d.id}
         /\ \A id \in DOMAIN m : emplace(m, d)[id] = m[id]
         /\ d.id \notin DOMAIN m => emplace(m, d)[d.id] = d
  <1>1. CASE d.id \in DOMAIN m
    BY <1>1 DEF emplace
  <1>2. CASE d.id \notin DOMAIN m
    BY <1>2 DEF emplace
  <1>3. QED
    BY <1>1, <1>2

\* A map stays ready when a driver that is ready is added.
LEMMA EmplacedIsReady ==
  ASSUME NEW m, NEW d, NEW exp, NEW ser, NEW s, MapReady(m, exp, ser, s),
         d.type \in 1 .. 7, InRange(d), exp => <<d.type, d.id>> \in ser,
         d.type = 1 => s.client = "made" /\ s.identity = "cfg"
  PROVE  MapReady(emplace(m, d), exp, ser, s)
  <1>1. PICK m2 : m2 = emplace(m, d)
    OBVIOUS
  <1>2. /\ DOMAIN m2 = DOMAIN m \union {d.id}
        /\ \A id \in DOMAIN m : m2[id] = m[id]
        /\ d.id \notin DOMAIN m => m2[d.id] = d
    BY <1>1, Emplaced
  <1>3. SUFFICES ASSUME NEW id \in DOMAIN m2
                 PROVE  /\ m2[id].id = id /\ m2[id].type \in 1 .. 7 /\ InRange(m2[id])
                        /\ exp => <<m2[id].type, id>> \in ser
                        /\ m2[id].type = 1 => s.client = "made" /\ s.identity = "cfg"
    BY <1>1, Zenon DEF MapReady
  <1>4. CASE id \in DOMAIN m
    BY <1>2, <1>4, Zenon DEF MapReady
  <1>5. CASE id \notin DOMAIN m
    <2>1. id = d.id /\ m2[id] = d
      BY <1>2, <1>5, Zenon
    <2>2. QED
      BY <2>1, Zenon
  <1>6. QED
    BY <1>4, <1>5

\* The row that is read.
LEMMA RowOfTable ==
  ASSUME LoadShape, more
  PROVE  /\ IsRow(row) /\ load.i \in DOMAIN load.table /\ load.i \in Nat /\ load.i >= 1
         /\ load.table \in Tables
  <1>1. load.on /\ load.table \in Tables /\ load.i \in Nat /\ load.i >= 1 /\ load.i <= Len(load.table)
    BY DEF LoadShape, more
  <1>2. /\ Len(load.table) \in Nat /\ DOMAIN load.table = 1 .. Len(load.table)
        /\ \A k \in 1 .. Len(load.table) : IsRow(load.table[k])
    BY <1>1, TableAssumption
  <1>3. load.i \in 1 .. Len(load.table)
    BY <1>1, <1>2
  <1>4. QED
    BY <1>1, <1>2, <1>3 DEF row

\* The maps are ready at start-up.
LEMMA ReadyInitially == Init => ReadyInv
  <1>1. SUFFICES ASSUME Init
                 PROVE  ReadyInv
    OBVIOUS
  <1>2. load.dbMap = Nobody /\ load = NoLoad /\ mDriversMap = Nobody
    BY <1>1 DEF Init, NoLoad
  <1>3. /\ MapReady(mDriversMap, exporter, series, sip)
        /\ MapReady(load.dbMap, exporter, series, sip)
    BY <1>2, NobodyIsReady
  <1>4. sConfigType \in Formats
    BY <1>1 DEF Init, Formats, ECONFIG_DATA_INVALID, ECONFIG_DATA_AS_JSON_STRING
  <1>5. SipSound /\ LoadShape
    BY <1>1 DEF Init, NoSip, NoLoad, SipSound, LoadShape
  <1>6. loads \in 0 .. MaxLoads
    BY <1>1, BoundAssumption DEF Init
  <1>7. QED
    BY <1>1, <1>3, <1>4, <1>5, <1>6 DEF Init, ReadyInv

\* A load that fails changes nothing of the drivers in use.
LEMMA FailedKeepsReady ==
  ASSUME ReadyInv, failed, sConfigType' \in Formats, loads' \in 0 .. MaxLoads, SipSound',
         UNCHANGED <<exporter, series>>,
         sip.client = "made" /\ sip.identity = "cfg" => sip'.client = "made" /\ sip'.identity = "cfg"
  PROVE  ReadyInv'
  <1>1. /\ load' = NoLoad /\ mDriversMap' = mDriversMap /\ exporter' = exporter /\ series' = series
        /\ phase' \in {"starting", "serving", "ended"}
    BY DEF failed, ReadyInv
  <1>2. load'.dbMap = Nobody /\ LoadShape'
    BY <1>1 DEF NoLoad, LoadShape
  <1>3. MapReady(mDriversMap, exporter, series, sip')
    BY ReadyStays DEF ReadyInv
  <1>4. MapReady(Nobody, exporter, series, sip')
    BY NobodyIsReady
  <1>5. /\ MapReady(mDriversMap', exporter', series', sip')
        /\ MapReady(load'.dbMap, exporter', series', sip')
    BY <1>1, <1>2, <1>3, <1>4
  <1>6. QED
    BY <1>1, <1>2, <1>5 DEF ReadyInv

\* The static data of the SIP driver.
LEMMA StaticData ==
  ASSUME SipSound
  PROVE  /\ setStaticData = [isConfigured |-> TRUE, static |-> "cfg", client |-> sip.client,
                             identity |-> sip.identity]
  BY DEF SipSound, setStaticData

\* load_row, for a row whose type is in range: the driver of the row is ready
\* before it is added.
LEMMA TypedRowKeepsReady ==
  ASSUME ReadyInv, load_row, ~bad_id
  PROVE  ReadyInv'
  <1> DEFINE f == detect(sConfigType, row)
  <1>1. /\ more /\ sConfigType' = f /\ exporter' = exporter /\ loads' = loads
    BY DEF load_row
  <1>2. PICK id \in getID(f, row) :
          \/ id = ECDriverId.NULL /\ skip_row
          \/ bad_row(f, id)
          \/ bad_client(f, id)
          \/ good_row(f, id)
    BY DEF load_row
  <1>3. IsRow(row) /\ load.i \in Nat /\ load.i >= 1 /\ load.table \in Tables /\ LoadShape /\ SipSound
    BY <1>1, RowOfTable DEF ReadyInv
  <1>4. f \in Formats
    BY <1>3, Detected DEF ReadyInv
  <1> HIDE DEF f
  <1>5. id \in 0 .. 7 /\ ECDriverId.NULL = 0 /\ ECDriverId.SIP = 1
    BY <1>3, <1>4, Identifiers, DriverIds
  <1>6. CASE skip_row
    <2>1. /\ load' = [load EXCEPT !.i = load.i + 1] /\ phase' = phase /\ sip' = sip
          /\ mDriversMap' = mDriversMap /\ series' = series
      BY <1>6 DEF skip_row
    <2>2. LoadShape' /\ load'.dbMap = load.dbMap
      BY <1>3, <2>1 DEF LoadShape
    <2>3. SipSound'
      BY <1>3, <2>1 DEF SipSound
    <2>4. QED
      BY <1>1, <1>4, <2>1, <2>2, <2>3 DEF ReadyInv
  <1>7. CASE bad_row(f, id)
    <2>1. failed /\ sip' = sip /\ series' = series
      BY <1>7 DEF bad_row
    <2>2. SipSound'
      BY <1>3, <2>1 DEF SipSound
    <2>3. sConfigType' \in Formats /\ loads' \in 0 .. MaxLoads
      BY <1>1, <1>4 DEF ReadyInv
    <2>4. QED
      BY <1>1, <2>1, <2>2, <2>3, FailedKeepsReady
  <1>8. CASE bad_client(f, id)
    <2>1. failed /\ sip' = [setStaticData EXCEPT !.client = "made"] /\ series' = series
      BY <1>8 DEF bad_client
    <2>2. sip' = [isConfigured |-> TRUE, static |-> "cfg", client |-> "made",
                  identity |-> sip.identity]
      <3>1. PICK s : s = setStaticData
        OBVIOUS
      <3>2. s = [isConfigured |-> TRUE, static |-> "cfg", client |-> sip.client,
                 identity |-> sip.identity]
        BY <1>3, <3>1, StaticData
      <3>3. sip' = [s EXCEPT !.client = "made"]
        BY <2>1, <3>1
      <3>4. QED
        BY <3>2, <3>3
    <2>3. SipSound' /\ sip'.client = "made" /\ sip'.identity = sip.identity
      BY <2>2 DEF SipSound
    <2>4. sConfigType' \in Formats /\ loads' \in 0 .. MaxLoads
      BY <1>1, <1>4 DEF ReadyInv
    <2>5. QED
      BY <1>1, <2>1, <2>3, <2>4, FailedKeepsReady
  <1>9. CASE good_row(f, id)
    <2>1. PICK d : d = instantiate(f, row, id)
      OBVIOUS
    <2>2. /\ id # 0 /\ d # Throw /\ sip' = sip_after(d)
          /\ series' = series \union driver_init_metrics(d)
          /\ load' = [load EXCEPT !.i = load.i + 1, !.dbMap = emplace(load.dbMap, d)]
          /\ phase' = phase /\ mDriversMap' = mDriversMap
      BY <1>5, <1>9, <2>1 DEF good_row
    <2>3. id \in 1 .. 7
      BY <1>5, <2>2
    <2>4. SoundDriver(d, row, id)
      BY <1>3, <1>4, <2>1, <2>2, <2>3, MadeIsSound
    <2>5. d.type = id /\ d.type \in 1 .. 7 /\ InRange(d)
      BY <2>3, <2>4 DEF SoundDriver, IsDriverOf
    <2>6. LoadShape' /\ load'.dbMap = emplace(load.dbMap, d)
      <3>1. PICK m2 : m2 = emplace(load.dbMap, d)
        OBVIOUS
      <3>2. load' = [load EXCEPT !.i = load.i + 1, !.dbMap = m2]
        BY <2>2, <3>1
      <3>3. load' = [on |-> load.on, table |-> load.table, i |-> load.i + 1, dbMap |-> m2]
        BY <1>3, <3>2 DEF LoadShape
      <3>4. QED
        BY <1>3, <3>1, <3>3 DEF LoadShape
    <2>7. /\ SipSound'
          /\ sip.client = "made" /\ sip.identity = "cfg" => sip'.client = "made" /\ sip'.identity = "cfg"
          /\ d.type = 1 => sip'.client = "made" /\ sip'.identity = "cfg"
      <3>1. CASE d.type = 1
        <4>1. sip' = [isConfigured |-> TRUE, static |-> "cfg", client |-> "made", identity |-> "cfg"]
          <5>1. PICK s : s = setStaticData
            OBVIOUS
          <5>2. s = [isConfigured |-> TRUE, static |-> "cfg", client |-> sip.client,
                     identity |-> sip.identity]
            BY <1>3, <5>1, StaticData
          <5>3. sip' = [s EXCEPT !.client = "made", !.identity = s.static]
            BY <1>5, <2>2, <3>1, <5>1 DEF sip_after
          <5>4. QED
            BY <5>2, <5>3
        <4>2. QED
          BY <4>1 DEF SipSound
      <3>2. CASE d.type # 1
        <4>1. sip' = sip
          BY <1>5, <2>2, <3>2 DEF sip_after
        <4>2. QED
          BY <1>3, <3>2, <4>1 DEF SipSound
      <3>3. QED
        BY <3>1, <3>2
    <2>8. series \subseteq series' /\ (exporter => <<d.type, d.id>> \in series')
      BY <2>2 DEF driver_init_metrics
    <2>9. MapReady(mDriversMap, exporter, series', sip') /\ MapReady(load.dbMap, exporter, series', sip')
      BY <2>7, <2>8, ReadyStays DEF ReadyInv
    <2>10. MapReady(emplace(load.dbMap, d), exporter, series', sip')
      BY <2>5, <2>7, <2>8, <2>9, EmplacedIsReady
    <2>11. /\ MapReady(mDriversMap', exporter', series', sip')
           /\ MapReady(load'.dbMap, exporter', series', sip')
      BY <1>1, <2>2, <2>6, <2>9, <2>10
    <2>12. QED
      BY <1>1, <1>4, <2>2, <2>6, <2>7, <2>11 DEF ReadyInv
  <1>10. QED
    BY <1>2, <1>6, <1>7, <1>8, <1>9

\* load_row as a whole: a type out of range ends the load.
LEMMA RowKeepsReady ==
  ASSUME ReadyInv, load_row
  PROVE  ReadyInv'
  <1>1. CASE bad_id
    <2>1. failed /\ sip' = sip /\ series' = series /\ exporter' = exporter /\ loads' = loads
      BY <1>1 DEF load_row, bad_id
    <2>2. more /\ sConfigType' = detect(sConfigType, row)
      BY DEF load_row
    <2>3. IsRow(row)
      BY <2>2, RowOfTable DEF ReadyInv
    <2>4. sConfigType' \in Formats /\ loads' \in 0 .. MaxLoads
      BY <2>1, <2>2, <2>3, Detected DEF ReadyInv
    <2>5. SipSound'
      BY <2>1 DEF ReadyInv, SipSound
    <2>6. QED
      BY <2>1, <2>4, <2>5, FailedKeepsReady
  <1>2. QED
    BY <1>1, TypedRowKeepsReady

\* Every step keeps the maps ready.
LEMMA NextKeepsReady ==
  ASSUME ReadyInv, [Next]_vars
  PROVE  ReadyInv'
  <1>1. CASE exec_fails
    <2>1. failed /\ loads < MaxLoads /\ loads' = loads + 1 /\ sConfigType' = sConfigType
          /\ sip' = sip /\ exporter' = exporter /\ series' = series
      BY <1>1 DEF exec_fails, begin
    <2>2. SipSound' /\ sConfigType' \in Formats
      BY <2>1 DEF ReadyInv, SipSound
    <2>3. loads' \in 0 .. MaxLoads
      BY <2>1, BoundAssumption DEF ReadyInv
    <2>4. QED
      BY <2>1, <2>2, <2>3, FailedKeepsReady
  <1>2. CASE exec
    <2>1. PICK t \in Tables : load' = [on |-> TRUE, table |-> t, i |-> 1, dbMap |-> Nobody]
      BY <1>2 DEF exec
    <2>2. /\ loads < MaxLoads /\ loads' = loads + 1 /\ phase' = phase /\ sConfigType' = sConfigType
          /\ sip' = sip /\ exporter' = exporter /\ series' = series /\ mDriversMap' = mDriversMap
      BY <1>2 DEF exec, begin
    <2>3. SipSound' /\ LoadShape' /\ load'.dbMap = Nobody
      BY <2>1, <2>2 DEF ReadyInv, SipSound, LoadShape
    <2>4. loads' \in 0 .. MaxLoads
      BY <2>2, BoundAssumption DEF ReadyInv
    <2>5. MapReady(Nobody, exporter, series, sip)
      BY NobodyIsReady
    <2>6. QED
      BY <2>2, <2>3, <2>4, <2>5 DEF ReadyInv
  <1>3. CASE load_row
    BY <1>3, RowKeepsReady
  <1>4. CASE configure
    <2>1. /\ mDriversMap' = load.dbMap /\ phase' = "serving" /\ load' = NoLoad
          /\ sConfigType' = sConfigType /\ sip' = sip /\ exporter' = exporter /\ series' = series
          /\ loads' = loads
      BY <1>4 DEF configure
    <2>2. SipSound' /\ LoadShape' /\ load'.dbMap = Nobody
      BY <2>1 DEF ReadyInv, SipSound, LoadShape, NoLoad
    <2>3. MapReady(Nobody, exporter, series, sip)
      BY NobodyIsReady
    <2>4. QED
      BY <2>1, <2>2, <2>3 DEF ReadyInv
  <1>5. CASE restart
    <2>1. /\ phase' = "starting" /\ sConfigType' = 0 /\ sip' = NoSip /\ mDriversMap' = Nobody
          /\ exporter' \in BOOLEAN /\ series' = {} /\ load' = NoLoad /\ loads' = loads
      BY <1>5 DEF restart, ECONFIG_DATA_INVALID
    <2>2. SipSound' /\ LoadShape' /\ load'.dbMap = Nobody
      BY <2>1 DEF SipSound, LoadShape, NoSip, NoLoad
    <2>3. sConfigType' \in Formats
      BY <2>1 DEF Formats, ECONFIG_DATA_INVALID, ECONFIG_DATA_AS_JSON_STRING
    <2>4. MapReady(Nobody, exporter', series', sip')
      BY NobodyIsReady
    <2>5. QED
      BY <2>1, <2>2, <2>3, <2>4 DEF ReadyInv
  <1>6. CASE UNCHANGED vars
    BY <1>6 DEF vars, ReadyInv, SipSound, LoadShape
  <1>7. QED
    BY <1>1, <1>2, <1>3, <1>4, <1>5, <1>6 DEF Next

\* Every driver that is in use, or being loaded, has its numbers in range, its
\* metrics and, for SIP, its client and identity.
THEOREM ReadyInvariant == Spec => []ReadyInv
  <1>1. Init => ReadyInv
    BY ReadyInitially
  <1>2. ReadyInv /\ [Next]_vars => ReadyInv'
    BY NextKeepsReady
  <1>3. QED
    BY <1>1, <1>2, PTL DEF Spec

\* DriversReady for tables of any length and any sequence of loads, failed ones
\* and restarts among them: Resolver::configure() puts no driver in use that
\* could not serve.
THEOREM DriversAreReady == Spec => []DriversReady
  <1>1. ReadyInv => DriversReady
    <2>1. SUFFICES ASSUME ReadyInv
                   PROVE  DriversReady
      OBVIOUS
    <2>2. TypeOK
      BY <2>1, Zenon DEF ReadyInv, SipSound, LoadShape, MapReady, InRange, TypeOK
    <2>3. SeriesForEveryDriver
      BY <2>1 DEF ReadyInv, MapReady, SeriesForEveryDriver
    <2>4. SipIdentitySet
      BY <2>1, DriverIds DEF ReadyInv, MapReady, SipIdentitySet
    <2>5. QED
      BY <2>2, <2>3, <2>4 DEF DriversReady
  <1>2. QED
    BY <1>1, ReadyInvariant, PTL

-----------------------------------------------------------------------------
(***************************************************************************)
(* The drivers are the table's.                                            *)
(***************************************************************************)

\* Tables and readings.
LEMMA TableParts ==
  ASSUME NEW t \in Tables
  PROVE  /\ Len(t) \in Nat /\ DOMAIN t = 1 .. Len(t)
         /\ \A k \in DOMAIN t : k \in Int /\ k >= 1 /\ IsRow(t[k])
  BY TableAssumption

\* The number of a type is read in the two older formats only.
LEMMA ThrowsIsOutside ==
  ASSUME NEW r, IsRow(r)
  PROVE  getID_throws(r) <=> r.schema \in 1 .. 2 /\ r.cell["o_driver_id"] = "outside"
  <1>1. r.schema \in {1, 2, 3, 4}
    BY RowParts
  <1>2. "o_driver_id" \in Columns[r.schema] <=> r.schema \in 1 .. 2
    BY <1>1 DEF Columns, V1Columns
  <1>3. QED
    BY <1>2 DEF getID_throws, column

\* The types of a table have a reading.
LEMMA ReadingExists ==
  ASSUME NEW t
  PROVE  \E c : c \in Readings(t)
  <1> DEFINE c == [k \in DOMAIN t |-> IF t[k].type \in 0 .. 7 THEN t[k].type ELSE 0]
  <1>1. c \in [DOMAIN t -> 0 .. 7]
    OBVIOUS
  <1>2. \A k \in DOMAIN t : t[k].type \in 0 .. 7 => c[k] = t[k].type
    OBVIOUS
  <1>3. QED
    BY <1>1, <1>2 DEF Readings

\* A reading may be changed at a row to what getID() made of it.
Changed(t, c, i, e) == [k \in DOMAIN t |-> IF k = i THEN e ELSE c[k]]

\* A reading may be changed in the row that is read next.
LEMMA ReadingChanged ==
  ASSUME NEW t, NEW c \in Readings(t), NEW i \in DOMAIN t, NEW e \in 0 .. 7,
         t[i].type \in 0 .. 7 => e = t[i].type
  PROVE  Changed(t, c, i, e) \in Readings(t)
  <1>1. /\ c \in [DOMAIN t -> 0 .. 7]
        /\ \A k \in DOMAIN t : t[k].type \in 0 .. 7 => c[k] = t[k].type
    BY DEF Readings
  <1>2. PICK c2 : c2 = Changed(t, c, i, e)
    OBVIOUS
  <1>3. c2 \in [DOMAIN t -> 0 .. 7]
    BY <1>1, <1>2 DEF Changed
  <1>4. \A k \in DOMAIN t : t[k].type \in 0 .. 7 => c2[k] = t[k].type
    BY <1>1, <1>2 DEF Changed
  <1>5. QED
    BY <1>2, <1>3, <1>4 DEF Readings

\* The rows used before the first one, and before one behind the last.
LEMMA UsedEnds ==
  ASSUME NEW t \in Tables, NEW c
  PROVE  /\ UsedTo(t, c, 1) = {}
         /\ \A i \in Int : i > Len(t) => UsedTo(t, c, i) = Used(t, c)
  BY TableParts DEF UsedTo, Used

\* Before the first row the map is that of no rows.
LEMMA PrefixStarts ==
  ASSUME NEW fm, NEW t \in Tables
  PROVE  PrefixRead(fm, t, 1, Nobody)
  <1>1. PICK c : c \in Readings(t)
    BY ReadingExists
  <1>2. UsedTo(t, c, 1) = {}
    BY UsedEnds
  <1>3. IsMapTo(Nobody, t, c, 1)
    BY <1>2 DEF IsMapTo, Nobody
  <1>4. QED
    BY <1>1, <1>2, <1>3 DEF PrefixRead

\* A row behind the others adds its driver, unless the id is taken.
LEMMA MapGrows ==
  ASSUME NEW t \in Tables, NEW i \in DOMAIN t, NEW c, NEW c2, NEW m, NEW d, NEW m2,
         IsMapTo(m, t, c, i), m2 = emplace(m, d), d.id = t[i].id,
         \A k \in UsedTo(t, c, i) : c2[k] = c[k],
         UsedTo(t, c2, i + 1) = UsedTo(t, c, i) \union {i},
         IsDriverOf(d, t[i], c2[i])
  PROVE  IsMapTo(m2, t, c2, i + 1)
  <1>1. /\ DOMAIN m2 = DOMAIN m \union {d.id}
        /\ \A id \in DOMAIN m : m2[id] = m[id]
        /\ d.id \notin DOMAIN m => m2[d.id] = d
    BY Emplaced
  <1>2. /\ DOMAIN m = {t[k].id : k \in UsedTo(t, c, i)}
        /\ \A k \in UsedTo(t, c, i) : (\A l \in UsedTo(t, c, i) : t[l].id = t[k].id => k <= l)
                                      => IsDriverOf(m[t[k].id], t[k], c[k])
    BY DEF IsMapTo
  <1>3. \A k \in UsedTo(t, c, i) : k \in Int /\ k < i /\ k # i
    BY TableParts DEF UsedTo, Used
  <1>4. i \in Int
    BY TableParts
  <1>5. DOMAIN m2 = {t[k].id : k \in UsedTo(t, c2, i + 1)}
    BY <1>1, <1>2
  <1>6. ASSUME NEW k \in UsedTo(t, c2, i + 1),
               \A l \in UsedTo(t, c2, i + 1) : t[l].id = t[k].id => k <= l
        PROVE  IsDriverOf(m2[t[k].id], t[k], c2[k])
    <2>1. CASE k \in UsedTo(t, c, i)
      <3>1. \A l \in UsedTo(t, c, i) : t[l].id = t[k].id => k <= l
        BY <1>6
      <3>2. IsDriverOf(m[t[k].id], t[k], c[k])
        BY <1>2, <2>1, <3>1
      <3>3. t[k].id \in DOMAIN m /\ c2[k] = c[k]
        BY <1>2, <2>1
      <3>4. QED
        BY <1>1, <3>2, <3>3
    <2>2. CASE k = i
      <3>1. \A l \in UsedTo(t, c, i) : t[l].id # t[i].id
        BY <1>3, <1>4, <1>6, <2>2
      <3>2. d.id \notin DOMAIN m
        BY <1>2, <3>1
      <3>3. QED
        BY <1>1, <2>2, <3>2
    <2>3. QED
      BY <2>1, <2>2
  <1>7. QED
    BY <1>5, <1>6, Zenon DEF IsMapTo

\* The row is used in the reading e of its type when its driver was made, and
\* not used when it was skipped.
LEMMA UsedRow ==
  ASSUME NEW t \in Tables, NEW i \in DOMAIN t, NEW f \in Formats, f = FormatOf(t[i].schema),
         NEW id \in getID(f, t[i])
  PROVE  \E e \in 0 .. 7 : /\ t[i].type \in 0 .. 7 => e = t[i].type
                           /\ id # 0 => e = id /\ (e = 4 => t[i].schema \in {2, 3})
                           /\ id = 0 => ~(e # 0 /\ (e = 4 => t[i].schema \in {2, 3}))
  <1>1. IsRow(t[i])
    BY TableParts
  <1>2. /\ id \in 0 .. 7
        /\ id # 0 => t[i].type \in {id, 8} /\ (id = 4 => f >= 2)
        /\ id = 0 /\ t[i].type \in 0 .. 7 => \/ t[i].type = 0
                                             \/ t[i].type = 4 /\ f <= 1
    BY <1>1, Identifiers
  <1>3. t[i].schema \in {1, 2, 3, 4} /\ (f >= 2 <=> t[i].schema \in {2, 3}) /\ f \in 0 .. 3
    <2>1. t[i].schema \in {1, 2, 3, 4}
      BY <1>1, RowParts
    <2>2. QED
      BY <2>1 DEF FormatOf, ECONFIG_DATA_INVALID
  <1>4. CASE id # 0
    <2>1. t[i].type \in 0 .. 7 => id = t[i].type
      BY <1>2, <1>4
    <2>2. id = 4 => t[i].schema \in {2, 3}
      BY <1>2, <1>3, <1>4
    <2>3. QED
      BY <1>2, <1>4, <2>1, <2>2
  <1>5. CASE id = 0 /\ t[i].type \in 0 .. 7
    <2>1. ~(t[i].type # 0 /\ (t[i].type = 4 => t[i].schema \in {2, 3}))
      BY <1>2, <1>3, <1>5
    <2>2. QED
      BY <1>5, <2>1
  <1>6. CASE id = 0 /\ t[i].type \notin 0 .. 7
    <2>1. 0 \in 0 .. 7
      OBVIOUS
    <2>2. QED
      BY <1>6, <2>1, Zenon
  <1>7. QED
    BY <1>4, <1>5, <1>6

\* The reading that a row adds to.
LEMMA UsedGrows ==
  ASSUME NEW t \in Tables, NEW i \in DOMAIN t, NEW c \in Readings(t), NEW f \in Formats,
         f = FormatOf(t[i].schema), NEW id \in getID(f, t[i])
  PROVE  \E c2 \in Readings(t) :
           /\ \A k \in UsedTo(t, c, i) : c2[k] = c[k]
           /\ id # 0 => c2[i] = id /\ i \in Used(t, c2)
           /\ UsedTo(t, c2, i + 1) = UsedTo(t, c, i) \union (IF id = 0 THEN {} ELSE {i})
  <1>1. PICK e \in 0 .. 7 :
          /\ t[i].type \in 0 .. 7 => e = t[i].type
          /\ id # 0 => e = id /\ (e = 4 => t[i].schema \in {2, 3})
          /\ id = 0 => ~(e # 0 /\ (e = 4 => t[i].schema \in {2, 3}))
    BY UsedRow
  <1>2. PICK c2 \in Readings(t) : c2[i] = e /\ \A k \in DOMAIN t : k # i => c2[k] = c[k]
    <2>1. t[i].type \in 0 .. 7 => e = t[i].type
      BY <1>1
    <2>2. Changed(t, c, i, e) \in Readings(t)
      BY <2>1, ReadingChanged
    <2>3. PICK c2 : c2 = Changed(t, c, i, e)
      OBVIOUS
    <2>4. c2[i] = e /\ \A k \in DOMAIN t : k # i => c2[k] = c[k]
      BY <2>3 DEF Changed
    <2>5. c2 \in Readings(t)
      BY <2>2, <2>3
    <2>6. QED
      BY <2>4, <2>5
  <1>3. i \in Int /\ \A k \in DOMAIN t : k \in Int
    BY TableParts
  <1>4. i \in Used(t, c2) <=> id # 0
    BY <1>1, <1>2 DEF Used
  <1>5. \A k \in DOMAIN t : k < i => (k \in Used(t, c2) <=> k \in Used(t, c))
    BY <1>2, <1>3 DEF Used
  <1>6. \A k \in UsedTo(t, c, i) : c2[k] = c[k]
    BY <1>2, <1>3 DEF UsedTo, Used
  <1>7. UsedTo(t, c2, i + 1) = UsedTo(t, c, i) \union (IF id = 0 THEN {} ELSE {i})
    <2>1. \A k \in DOMAIN t : k < i + 1 <=> k < i \/ k = i
      BY <1>3
    <2>2. \A k : k \in UsedTo(t, c2, i + 1) <=> k \in DOMAIN t /\ k \in Used(t, c2) /\ k < i + 1
      BY DEF UsedTo, Used
    <2>3. \A k : k \in UsedTo(t, c, i) <=> k \in DOMAIN t /\ k \in Used(t, c) /\ k < i
      BY DEF UsedTo, Used
    <2>4. QED
      BY <1>4, <1>5, <2>1, <2>2, <2>3
  <1>8. id # 0 => c2[i] = id /\ i \in Used(t, c2)
    BY <1>1, <1>2, <1>4
  <1>9. QED
    BY <1>6, <1>7, <1>8, Zenon

\* The rows before this one had the format that is in use now.
LEMMA FormatBefore ==
  ASSUME NEW t \in Tables, NEW i \in DOMAIN t, NEW fm \in Formats,
         NEW f2, f2 = detect(fm, t[i]), NoneDetected(fm, t, i),
         \A k \in DOMAIN t : k < i + 1 => f2 = FormatOf(t[k].schema)
  PROVE  \A k \in DOMAIN t : k < i => fm = FormatOf(t[k].schema)
  <1>1. IsRow(t[i]) /\ i \in Int /\ \A k \in DOMAIN t : k \in Int
    BY TableParts
  <1>2. \A k \in DOMAIN t : k < i => f2 = FormatOf(t[k].schema)
    BY <1>1
  <1>3. CASE fm # 0
    BY <1>1, <1>2, <1>3, Detected
  <1>4. CASE fm = 0
    BY <1>4 DEF NoneDetected, FormatOf, ECONFIG_DATA_INVALID
  <1>5. QED
    BY <1>3, <1>4

\* A row that was skipped, or whose driver was stored.
LEMMA PrefixGrows ==
  ASSUME NEW t \in Tables, NEW i \in DOMAIN t, NEW fm \in Formats, NEW m, NEW m2,
         NEW f2 \in Formats, f2 = detect(fm, t[i]), NoneDetected(fm, t, i),
         PrefixRead(fm, t, i, m), NEW id \in getID(f2, t[i]), NEW d,
         id = 0 => m2 = m,
         id # 0 => m2 = emplace(m, d) /\ SoundDriver(d, t[i], id) /\ d.id = t[i].id
  PROVE  PrefixRead(f2, t, i + 1, m2)
  <1>1. SUFFICES ASSUME \A k \in DOMAIN t : k < i + 1 => f2 = FormatOf(t[k].schema)
                 PROVE  \E c \in Readings(t) : /\ \A k \in UsedTo(t, c, i + 1) : ~Broken(t[k], c[k])
                                               /\ IsMapTo(m2, t, c, i + 1)
    BY DEF PrefixRead
  <1>2. \A k \in DOMAIN t : k < i => fm = FormatOf(t[k].schema)
    BY <1>1, FormatBefore
  <1>3. PICK c \in Readings(t) :
          (\A k \in UsedTo(t, c, i) : ~Broken(t[k], c[k])) /\ IsMapTo(m, t, c, i)
    BY <1>2 DEF PrefixRead
  <1>4. f2 = FormatOf(t[i].schema)
    BY <1>1, TableParts
  <1>5. PICK c2 \in Readings(t) :
           /\ \A k \in UsedTo(t, c, i) : c2[k] = c[k]
           /\ id # 0 => c2[i] = id /\ i \in Used(t, c2)
           /\ UsedTo(t, c2, i + 1) = UsedTo(t, c, i) \union (IF id = 0 THEN {} ELSE {i})
    BY <1>3, <1>4, UsedGrows
  <1>6. CASE id = 0
    <2>1. UsedTo(t, c2, i + 1) = UsedTo(t, c, i) /\ m2 = m
      BY <1>5, <1>6
    <2>2. IsMapTo(m, t, c2, i + 1)
      BY <1>3, <1>5, <2>1 DEF IsMapTo
    <2>3. QED
      BY <1>3, <1>5, <2>1, <2>2
  <1>7. CASE id # 0
    <2>1. /\ UsedTo(t, c2, i + 1) = UsedTo(t, c, i) \union {i} /\ c2[i] = id
          /\ m2 = emplace(m, d) /\ IsDriverOf(d, t[i], c2[i]) /\ ~Broken(t[i], c2[i])
      BY <1>5, <1>7 DEF SoundDriver
    <2>2. IsMapTo(m2, t, c2, i + 1)
      BY <1>3, <1>5, <1>7, <2>1, MapGrows
    <2>3. \A k \in UsedTo(t, c2, i + 1) : ~Broken(t[k], c2[k])
      BY <1>3, <1>5, <2>1
    <2>4. QED
      BY <2>2, <2>3
  <1>8. QED
    BY <1>6, <1>7

\* The steps of a load keep what is known of the table.
LEMMA TableInitially == Init => TableInv
  BY DEF Init, NoLoad, TableInv

\* load_row, for a row whose type is in range: the map made so far is that of
\* one row more.
LEMMA TypedRowKeepsTable ==
  ASSUME ReadyInv, TableInv, load_row, ~bad_id
  PROVE  TableInv'
  <1> DEFINE f == detect(sConfigType, row)
             t == load.table
             i == load.i
  <1>1. more /\ load.on /\ sConfigType' = f
    BY DEF load_row, more
  <1>2. PICK id \in getID(f, row) :
          \/ id = ECDriverId.NULL /\ skip_row
          \/ bad_row(f, id)
          \/ bad_client(f, id)
          \/ good_row(f, id)
    BY DEF load_row
  <1>3. IsRow(row) /\ i \in DOMAIN t /\ i \in Nat /\ t \in Tables /\ LoadShape /\ row = t[i]
    BY <1>1, RowOfTable DEF ReadyInv, row
  <1>4. sConfigType \in Formats /\ f \in Formats
    BY <1>3, Detected DEF ReadyInv
  <1>5. id \in 0 .. 7 /\ ECDriverId.NULL = 0 /\ (id # 0 => t[i].type \in {id, 8})
    BY <1>3, <1>4, Identifiers, DriverIds
  <1>6. /\ PrefixRead(sConfigType, t, i, load.dbMap) /\ OwnRows(t, load.dbMap)
        /\ NoneDetected(sConfigType, t, i) /\ NumberedTo(t, i)
    BY <1>1 DEF TableInv
  <1>12. NumberedTo(t, i + 1)
    <2>1. ~getID_throws(t[i])
      BY <1>3 DEF load_row
    <2>2. \A k \in DOMAIN t : k \in Int
      BY <1>3, TableParts
    <2>3. QED
      BY <1>3, <1>6, <2>1, <2>2 DEF NumberedTo
  <1>7. NoneDetected(f, t, i + 1)
    <2>1. SUFFICES ASSUME f = 0, NEW k \in DOMAIN t, k < i + 1
                   PROVE  t[k].schema = 4
      BY DEF NoneDetected
    <2>2. sConfigType = 0 /\ FormatOf(t[i].schema) = 0
      BY <1>3, <1>4, <2>1, Detected
    <2>3. t[i].schema = 4
      <3>1. t[i].schema \in {1, 2, 3, 4}
        BY <1>3, RowParts
      <3>2. QED
        BY <2>2, <3>1 DEF FormatOf, ECONFIG_DATA_INVALID
    <2>4. k \in Int
      BY <1>3, TableParts
    <2>5. QED
      BY <1>3, <1>6, <2>1, <2>2, <2>3, <2>4 DEF NoneDetected
  <1>8. CASE id = 0 /\ skip_row
    <2>1. load' = [load EXCEPT !.i = i + 1]
      BY <1>8 DEF skip_row
    <2>2. load'.table = t /\ load'.i = i + 1 /\ load'.dbMap = load.dbMap
      BY <1>3, <2>1 DEF LoadShape
    <2>3. PrefixRead(f, t, i + 1, load.dbMap)
      <3>1. PICK m : m = load.dbMap
        OBVIOUS
      <3>2. PICK d : d = Throw
        OBVIOUS
      <3>3. PrefixRead(f, t, i + 1, m)
        BY <1>2, <1>3, <1>4, <1>6, <1>8, <3>1, PrefixGrows
      <3>4. QED
        BY <3>1, <3>3
    <2>4. QED
      BY <1>1, <1>6, <1>7, <1>12, <2>2, <2>3 DEF TableInv
  <1>9. CASE bad_row(f, id) \/ bad_client(f, id)
    <2>1. load' = NoLoad
      BY <1>9 DEF bad_row, bad_client, failed
    <2>2. QED
      BY <2>1 DEF TableInv, NoLoad
  <1>10. CASE good_row(f, id)
    <2>1. PICK d : d = instantiate(f, row, id)
      OBVIOUS
    <2>2. /\ id # 0 /\ d # Throw
          /\ load' = [load EXCEPT !.i = i + 1, !.dbMap = emplace(load.dbMap, d)]
      BY <1>5, <1>10, <2>1 DEF good_row
    <2>3. id \in 1 .. 7
      BY <1>5, <2>2
    <2>4. SoundDriver(d, t[i], id)
      BY <1>3, <1>4, <2>1, <2>2, <2>3, MadeIsSound
    <2>5. d.id = t[i].id
      BY <2>4 DEF SoundDriver, IsDriverOf
    <2>6. PICK m2 : m2 = emplace(load.dbMap, d)
      OBVIOUS
    <2>7. load'.table = t /\ load'.i = i + 1 /\ load'.dbMap = m2
      <3>1. load' = [load EXCEPT !.i = i + 1, !.dbMap = m2]
        BY <2>2, <2>6
      <3>2. QED
        BY <1>3, <3>1 DEF LoadShape
    <2>8. PrefixRead(f, t, i + 1, m2)
      <3>1. PICK m : m = load.dbMap
        OBVIOUS
      <3>2. PrefixRead(sConfigType, t, i, m) /\ NoneDetected(sConfigType, t, i) /\ m2 = emplace(m, d)
        BY <1>6, <2>6, <3>1
      <3>3. id \in getID(f, t[i]) /\ f = detect(sConfigType, t[i])
        BY <1>2, <1>3
      <3>4. QED
        BY <1>3, <1>4, <2>2, <2>4, <2>5, <3>2, <3>3, PrefixGrows
    <2>9. OwnRows(t, m2)
      <3>1. /\ DOMAIN m2 = DOMAIN load.dbMap \union {d.id}
            /\ \A x \in DOMAIN load.dbMap : m2[x] = load.dbMap[x]
            /\ d.id \notin DOMAIN load.dbMap => m2[d.id] = d
        BY <2>6, Emplaced
      <3>2. SUFFICES ASSUME NEW x \in DOMAIN m2
                     PROVE  \E k \in DOMAIN t, type \in 1 .. 7 :
                              t[k].type \in {type, 8} /\ SoundDriver(m2[x], t[k], type)
        BY DEF OwnRows
      <3>3. CASE x \in DOMAIN load.dbMap
        BY <1>6, <3>1, <3>3 DEF OwnRows
      <3>4. CASE x \notin DOMAIN load.dbMap
        <4>1. m2[x] = d
          BY <3>1, <3>4
        <4>2. QED
          BY <1>3, <1>5, <2>2, <2>3, <2>4, <4>1
      <3>5. QED
        BY <3>3, <3>4
    <2>10. QED
      BY <1>1, <1>7, <1>12, <2>7, <2>8, <2>9 DEF TableInv
  <1>11. QED
    BY <1>2, <1>5, <1>8, <1>9, <1>10

\* load_row as a whole.
LEMMA RowKeepsTable ==
  ASSUME ReadyInv, TableInv, load_row
  PROVE  TableInv'
  <1>1. CASE bad_id
    <2>1. load' = NoLoad
      BY <1>1 DEF bad_id, failed
    <2>2. QED
      BY <2>1 DEF TableInv, NoLoad
  <1>2. QED
    BY <1>1, TypedRowKeepsTable

\* Every step keeps the map that of the rows read.
LEMMA NextKeepsTable ==
  ASSUME ReadyInv, TableInv, [Next]_vars
  PROVE  TableInv'
  <1>1. CASE exec_fails \/ configure \/ restart
    <2>1. load' = NoLoad
      BY <1>1 DEF exec_fails, configure, restart, failed
    <2>2. QED
      BY <2>1 DEF TableInv, NoLoad
  <1>2. CASE exec
    <2>1. PICK t \in Tables : load' = [on |-> TRUE, table |-> t, i |-> 1, dbMap |-> Nobody]
      BY <1>2 DEF exec
    <2>2. load'.table = t /\ load'.i = 1 /\ load'.dbMap = Nobody
      BY <2>1
    <2>3. PrefixRead(sConfigType', t, 1, Nobody)
      BY PrefixStarts
    <2>4. OwnRows(t, Nobody)
      BY DEF OwnRows, Nobody
    <2>5. NoneDetected(sConfigType', t, 1) /\ NumberedTo(t, 1)
      BY TableParts DEF NoneDetected, NumberedTo
    <2>6. QED
      BY <2>2, <2>3, <2>4, <2>5 DEF TableInv
  <1>3. CASE load_row
    BY <1>3, RowKeepsTable
  <1>4. CASE UNCHANGED vars
    BY <1>4 DEF vars, TableInv
  <1>5. QED
    BY <1>1, <1>2, <1>3, <1>4 DEF Next

\* The rows that were read made the drivers that are being loaded.
THEOREM TableInvariant == Spec => []TableInv
  <1>1. Init => TableInv
    BY TableInitially
  <1>2. ReadyInv /\ TableInv /\ [Next]_vars => TableInv'
    BY NextKeepsTable
  <1>3. QED
    BY <1>1, <1>2, ReadyInvariant, PTL DEF Spec

\* The steps a load can end with.
LEMMA EndsOf ==
  ASSUME ReadyInv, [Next]_vars, Ends
  PROVE  \/ configure
         \/ /\ more /\ mDriversMap' = mDriversMap
            /\ sConfigType' = detect(sConfigType, row)
            /\ \/ getID_throws(row)
               \/ \E id \in getID(sConfigType', row) :
                    bad_row(sConfigType', id) \/ bad_client(sConfigType', id)
  <1>1. load.on /\ ~load'.on /\ phase' # "starting" /\ LoadShape
    BY DEF Ends, ReadyInv
  <1>2. ~exec_fails /\ ~exec /\ ~restart /\ ~UNCHANGED vars
    <2>1. ~exec_fails /\ ~exec
      BY <1>1 DEF exec_fails, exec, begin
    <2>2. ~restart
      BY <1>1 DEF restart
    <2>3. ~UNCHANGED vars
      BY <1>1 DEF vars
    <2>4. QED
      BY <2>1, <2>2, <2>3
  <1>5. CASE load_row /\ bad_id
    BY <1>5 DEF load_row, bad_id, failed
  <1>3. CASE load_row /\ ~bad_id
    <2>1. more /\ sConfigType' = detect(sConfigType, row)
      BY <1>3 DEF load_row
    <2>2. PICK id \in getID(sConfigType', row) :
            \/ skip_row
            \/ bad_row(sConfigType', id)
            \/ bad_client(sConfigType', id)
            \/ good_row(sConfigType', id)
      BY <1>3 DEF load_row
    <2>3. ~skip_row
      <3>1. SUFFICES ASSUME load' = [load EXCEPT !.i = load.i + 1]
                     PROVE  load'.on
        BY <1>1 DEF skip_row
      <3>2. QED
        BY <1>1, <3>1 DEF LoadShape
    <2>4. ~good_row(sConfigType', id)
      <3>1. SUFFICES ASSUME NEW m, load' = [load EXCEPT !.i = load.i + 1, !.dbMap = m]
                     PROVE  load'.on
        BY <1>1 DEF good_row
      <3>2. QED
        BY <1>1, <3>1 DEF LoadShape
    <2>5. bad_row(sConfigType', id) \/ bad_client(sConfigType', id)
      BY <2>2, <2>3, <2>4
    <2>6. mDriversMap' = mDriversMap
      BY <2>5 DEF bad_row, bad_client, failed
    <2>7. QED
      BY <2>1, <2>5, <2>6
  <1>4. QED
    BY <1>2, <1>3, <1>5 DEF Next

\* LoadIsTheTable for tables of any length: a load in the table's own format
\* leaves the drivers in use alone, for a broken row, a type out of range or a
\* SIP client that could not be made, or puts exactly the drivers of the table's rows in use.
THEOREM LoadsAreTheTable == Spec => LoadIsTheTable
  <1> DEFINE P == LET t == load.table
                  IN \/ /\ mDriversMap' = mDriversMap
                        /\ \/ \E c \in Readings(t) : \E k \in Used(t, c) : Broken(t[k], c[k])
                           \/ ~Numbered(t)
                           \/ \E k \in DOMAIN t : t[k].type \in {1, 8} /\ sip.client = "none"
                     \/ /\ Numbered(t)
                        /\ \E c \in Readings(t) :
                             (\A k \in Used(t, c) : ~Broken(t[k], c[k])) /\ IsMapOf(mDriversMap', t, c)
  <1>1. ASSUME ReadyInv, TableInv, [Next]_vars, Ends, Agrees
        PROVE  P
    <2> DEFINE t == load.table
    <2>1. load.on /\ t \in Tables /\ LoadShape /\ load.i \in Nat /\ sConfigType \in Formats
      BY <1>1 DEF Ends, ReadyInv, LoadShape
    <2>2. CASE configure
      <3>1. /\ ~(load.i <= Len(t)) /\ mDriversMap' = load.dbMap /\ sConfigType' = sConfigType
        BY <2>1, <2>2 DEF configure, more
      <3>2. \A k \in DOMAIN t : k < load.i => sConfigType = FormatOf(t[k].schema)
        BY <1>1, <3>1 DEF Agrees
      <3>3. PICK c \in Readings(t) : /\ \A k \in UsedTo(t, c, load.i) : ~Broken(t[k], c[k])
                                     /\ IsMapTo(load.dbMap, t, c, load.i)
        BY <1>1, <2>1, <3>2 DEF TableInv, PrefixRead
      <3>4. load.i \in Int /\ load.i > Len(t)
        BY <2>1, <3>1, TableParts
      <3>5. UsedTo(t, c, load.i) = Used(t, c)
        BY <2>1, <3>4, UsedEnds
      <3>6. IsMapOf(mDriversMap', t, c)
        BY <3>1, <3>3, <3>5 DEF IsMapTo, IsMapOf
      <3>7. Numbered(t)
        <4>1. \A k \in DOMAIN t : ~getID_throws(t[k])
          BY <1>1, <2>1, <3>4, TableParts DEF TableInv, NumberedTo
        <4>2. QED
          BY <2>1, <4>1, TableParts, ThrowsIsOutside DEF Numbered
      <3>8. QED
        BY <3>3, <3>5, <3>6, <3>7
    <2>5. CASE more /\ mDriversMap' = mDriversMap /\ getID_throws(row)
      <3>1. IsRow(row) /\ load.i \in DOMAIN t /\ row = t[load.i]
        BY <2>1, <2>5, RowOfTable DEF row
      <3>2. ~Numbered(t)
        BY <2>5, <3>1, ThrowsIsOutside DEF Numbered
      <3>3. QED
        BY <2>5, <3>2
    <2>3. ASSUME more, mDriversMap' = mDriversMap, sConfigType' = detect(sConfigType, row),
                 NEW id \in getID(sConfigType', row),
                 bad_row(sConfigType', id) \/ bad_client(sConfigType', id)
          PROVE  P
      <3> DEFINE i == load.i
      <3>1. IsRow(t[i]) /\ i \in DOMAIN t /\ row = t[i]
        BY <2>1, <2>3, RowOfTable DEF row
      <3>2. PICK f \in Formats : f = sConfigType'
        BY <2>1, <2>3, <3>1, Detected
      <3>3. f = FormatOf(t[i].schema)
        BY <1>1, <3>1, <3>2 DEF Agrees
      <3>4. id \in getID(f, t[i])
        BY <2>3, <3>1, <3>2
      <3>5. id \in 0 .. 7 /\ id # 0 /\ (id # 0 => t[i].type \in {id, 8})
        <4>1. id # 0
          BY <2>3, DriverIds DEF bad_row, bad_client
        <4>2. QED
          BY <3>1, <3>4, <4>1, Identifiers
      <3>6. CASE bad_row(sConfigType', id)
        <4>1. instantiate(f, t[i], id) = Throw
          BY <3>1, <3>2, <3>6 DEF bad_row
        <4>2. PICK c0 : c0 \in Readings(t)
          BY ReadingExists
        <4>3. PICK c \in Readings(t) : c[i] = id /\ i \in Used(t, c)
          BY <2>1, <3>1, <3>3, <3>4, <3>5, <4>2, UsedGrows
        <4>4. id = 4 => t[i].schema \in {2, 3}
          BY <4>3 DEF Used
        <4>5. id \in 1 .. 7
          BY <3>5
        <4>6. Broken(t[i], id)
          BY <3>1, <3>2, <3>3, <4>1, <4>4, <4>5, ThrownIsBroken
        <4>7. Broken(t[i], c[i])
          BY <4>3, <4>6
        <4>8. QED
          BY <2>3, <4>3, <4>7
      <3>7. CASE bad_client(sConfigType', id)
        <4>1. PICK d : d = instantiate(f, t[i], id)
          OBVIOUS
        <4>2. d # Throw /\ d.type = 1 /\ sip.client = "none"
          BY <3>1, <3>2, <3>7, <4>1, DriverIds DEF bad_client, sip_client_fails
        <4>3. id \in 1 .. 7
          BY <3>5
        <4>4. SoundDriver(d, t[i], id)
          BY <3>1, <4>1, <4>2, <4>3, MadeIsSound
        <4>5. id = 1
          BY <4>2, <4>4 DEF SoundDriver, IsDriverOf
        <4>6. QED
          BY <2>3, <3>1, <3>5, <4>2, <4>5
      <3>8. QED
        BY <2>3, <3>6, <3>7
    <2>4. QED
      BY <1>1, <2>2, <2>3, <2>5, EndsOf
  <1>2. ReadyInv /\ TableInv /\ [Next]_vars => [Ends /\ Agrees => P]_vars
    <2> HIDE DEF P
    <2>1. QED
      BY <1>1
  <1>3. QED
    BY <1>2, ReadyInvariant, TableInvariant, PTL DEF Spec, LoadIsTheTable

\* StaleFormatIsSafe for any change of the database under a running process: a
\* driver made in a format that is not the table's is still that of a row which
\* is not broken, with the row's own settings.
THEOREM StaleFormatsAreSafe == Spec => StaleFormatIsSafe
  <1> DEFINE P == \/ mDriversMap' = mDriversMap
                  \/ \A id \in DOMAIN mDriversMap' : \E k \in DOMAIN load.table, type \in 1 .. 7 :
                       /\ load.table[k].type \in {type, 8}
                       /\ Supported(load.table[k].schema, type) /\ ~Broken(load.table[k], type)
                       /\ IsDriverOf(mDriversMap'[id], load.table[k], type)
  <1>1. ASSUME ReadyInv, TableInv, [Next]_vars, Ends
        PROVE  P
    <2>1. CASE configure
      <3>1. load.on /\ mDriversMap' = load.dbMap
        BY <2>1 DEF configure
      <3>2. OwnRows(load.table, load.dbMap)
        BY <1>1, <3>1 DEF TableInv
      <3>3. QED
        BY <3>1, <3>2 DEF OwnRows, SoundDriver
    <2>2. QED
      BY <1>1, <2>1, EndsOf
  <1>2. ReadyInv /\ TableInv /\ [Next]_vars => [Ends /\ ~Agrees => P]_vars
    <2> HIDE DEF P
    <2>1. QED
      BY <1>1
  <1>3. QED
    BY <1>2, ReadyInvariant, TableInvariant, PTL DEF Spec, StaleFormatIsSafe
=============================================================================
