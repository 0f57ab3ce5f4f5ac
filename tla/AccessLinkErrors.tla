------------------------- MODULE AccessLinkErrors -------------------------
(***************************************************************************)
(* SensorAccessLinkError, of which only the category and the severity      *)
(* decide anything, and the factories that give both to the codes of       *)
(* canlib, of libusb and of the gateway.  Codes are named as in their      *)
(* headers, without the prefix "canERR_" or "LIBUSB_ERROR_".               *)
(***************************************************************************)

Severity == {"EMERGENCY", "ALERT", "CRITICAL", "ERROR", "WARNING", "NOTICE",
             "INFO", "DEBUG", "EMPTY_SEVERITY"}

Category == {"CONNECTION_ERROR", "COMMUNICATION_ERROR", "UNHANDLED_ERROR",
             "EXTERNAL_ERROR", "UNRECOGNIZED_ERROR", "EMPTY_CATEGORY",
             "TRANSLATION_ERROR", "TIME_POINTS_ERROR"}

Error == [category : Category, severity : Severity]

NewError(category, severity) == [category |-> category, severity |-> severity]

IsFatalForGateway(e) == e.severity = "EMERGENCY"

IsFatalForSensorAccess(e) == e.severity \in {"EMERGENCY", "ALERT"}

(* Faulty: a communication error opens a connection it has not closed. *)
IsOpenConnectionRequiredAlways(e) == e.severity \notin {"EMERGENCY", "ALERT"}

IsOpenConnectionRequired(e) ==
  /\ e.category # "COMMUNICATION_ERROR"
  /\ e.severity \notin {"EMERGENCY", "ALERT"}

IsCloseConnectionRequired(e) == e.category # "COMMUNICATION_ERROR"

(* A row of a factory: all the codes that get this category and severity.  *)
Row(category, severity, codes) ==
  [error |-> NewError(category, severity), codes |-> codes]

(* What a factory throws: the last branch takes every code without a row. *)
ErrorFromTable(table, code) ==
  IF \E row \in table : code \in row.codes
  THEN (CHOOSE row \in table : code \in row.codes).error
  ELSE NewError("UNRECOGNIZED_ERROR", "CRITICAL")

(* The first half of the branches for canlib, from PARAM to RESERVED_2. *)
CanlibTable == {
  Row("COMMUNICATION_ERROR", "ERROR", {"PARAM", "NOMEM", "TXBUFOFL"}),
  Row("COMMUNICATION_ERROR", "INFO", {"NOMSG", "TIMEOUT"}),
  Row("COMMUNICATION_ERROR", "WARNING", {"INTERRUPTED"}),
  Row("COMMUNICATION_ERROR", "CRITICAL", {"INIFILE"}),
  Row("CONNECTION_ERROR", "CRITICAL", {"NOTFOUND"}),
  Row("CONNECTION_ERROR", "ERROR", {"NOCHANNELS"}),
  Row("CONNECTION_ERROR", "WARNING", {"NOTINITIALIZED"}),
  Row("UNHANDLED_ERROR", "CRITICAL", {"NOHANDLES", "INVHANDLE"}),
  Row("EXTERNAL_ERROR", "EMERGENCY", {"DRIVER", "DYNALOAD", "DYNALIB"}),
  Row("EXTERNAL_ERROR", "CRITICAL", {"HARDWARE", "DYNAINIT", "NOT_SUPPORTED"}),
  Row("UNRECOGNIZED_ERROR", "WARNING",
      {"RESERVED_1", "RESERVED_5", "RESERVED_6", "RESERVED_2"})}

(* The second half, from DRIVERLOAD to _RESERVED. *)
CanlibDriverTable == {
  Row("EXTERNAL_ERROR", "EMERGENCY",
      {"DRIVERLOAD", "INTERNAL", "SCRIPT_FAIL", "SCRIPT_TXE_CONTAINER_VERSION"}),
  Row("EXTERNAL_ERROR", "CRITICAL", {"DRIVERFAILED", "NOCONFIGMGR"}),
  Row("EXTERNAL_ERROR", "WARNING", {"NOCARD", "LICENSE", "SCRIPT_WRONG_VERSION"}),
  Row("EXTERNAL_ERROR", "ERROR", {"REGISTRY", "NOT_IMPLEMENTED", "DEVICE_FILE",
                                  "HOST_FILE", "SCRIPT_TXE_CONTAINER_FORMAT"}),
  Row("UNRECOGNIZED_ERROR", "WARNING", {"RESERVED_7", "_RESERVED"}),
  Row("CONNECTION_ERROR", "ERROR", {"NO_ACCESS"}),
  Row("UNHANDLED_ERROR", "ERROR", {"DISK", "MEMO_FAIL", "BUFFER_TOO_SMALL"}),
  Row("UNHANDLED_ERROR", "CRITICAL", {"CONFIG"}),
  Row("COMMUNICATION_ERROR", "CRITICAL", {"CRC"})}

LibusbTable == {
  Row("COMMUNICATION_ERROR", "ERROR", {"IO", "INVALID_PARAM", "TIMEOUT", "OVERFLOW"}),
  Row("CONNECTION_ERROR", "CRITICAL", {"ACCESS"}),
  Row("CONNECTION_ERROR", "EMERGENCY", {"NO_DEVICE"}),
  Row("CONNECTION_ERROR", "ALERT", {"NOT_FOUND", "BUSY"}),
  Row("CONNECTION_ERROR", "ERROR", {"PIPE", "INTERRUPTED"}),
  Row("EXTERNAL_ERROR", "ERROR", {"NO_MEM"}),
  Row("UNHANDLED_ERROR", "EMERGENCY", {"NOT_SUPPORTED"}),
  Row("UNRECOGNIZED_ERROR", "ERROR", {"OTHER"})}

CodesOf(table) == UNION {row.codes : row \in table}

KvaserCommunicationError(code) ==
  ErrorFromTable(CanlibTable \cup CanlibDriverTable, code)

GuardianUSBCommunicationError(code) == ErrorFromTable(LibusbTable, code)

LibUSBDeviceNotFound == NewError("CONNECTION_ERROR", "ERROR")

TranslationError == NewError("TRANSLATION_ERROR", "ERROR")
=============================================================================
