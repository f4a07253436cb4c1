----------------------------- MODULE RigProfile -----------------------------
(***************************************************************************)
(* A rig profile (rig_profile.py), what Device Setup makes of it           *)
(* (ui/device_setup/profile_builders.py, profile_editor.py) and what the   *)
(* factory of a session asks of it (device_factory.py).                    *)
(*                                                                         *)
(* A profile is its roles by device ID, its connections in their order and *)
(* its "details": names, labels, intervals and acknowledgements, which no  *)
(* rule looks at.  Of settings there is whether the driver takes them.     *)
(* Whoever refuses a request gives no candidate: the set is empty.         *)
(***************************************************************************)
EXTENDS Naturals, Sequences, Functions

CONSTANTS Ports,         \* serial ports
          Hosts,         \* targets of power supplies
          Addresses,     \* unit addresses on an Alicat bus
          Controller,    \* what the ESP32 controller names itself
          SensorDriver   \* the driver of each sensor it lists, by ID

Supply == "keithley_2260b"    \* or another SCPI supply

(* The drivers whose edited configuration is validated before it is saved. *)
Validated == {"alicat", Supply, "tasi_ta612c", "kamoer_m1_stp"}

(* What the controller lists, it also reads. *)
ASSUME SensorAssumption ==
    \A s \in DOMAIN SensorDriver : SensorDriver[s] \in {"lumel_re72", "esp32_dht11"}

NoAddress == "-"

Details == 0..1

Blank == [roles |-> <<>>, connections |-> <<>>, details |-> 0]

Configured(profile) == DOMAIN profile.roles

Enabled(profile) == {d \in Configured(profile) : profile.roles[d].enabled}

Connections(profile) == Range(profile.connections)

GetConnection(profile, d) ==
    CHOOSE connection \in Connections(profile) :
        connection.id = profile.roles[d].connection

-----------------------------------------------------------------------------
(* Device Setup adds devices. *)

(* The first of "base", "base_2", "base_3", ... that no connection has. *)
UniqueConnectionId(profile, base, target) ==
    LET Id(n) == [base |-> base, target |-> target, number |-> n]
        Used(n) == \E connection \in Connections(profile) : connection.id = Id(n)
    IN Id(CHOOSE n \in 1..(Len(profile.connections) + 1) :
              ~Used(n) /\ \A m \in 1..(n - 1) : Used(m))

(* "unnamed": the controller ID of an ESP32 connection was cleared. *)
Connection(id, target) == [id |-> id, port |-> target, fit |-> "fit"]

Role(driver, id, address) ==
    [driver |-> driver, enabled |-> TRUE, connection |-> id, address |-> address, fit |-> TRUE]

WithRoles(profile, new) ==
    [profile EXCEPT !.roles =
        [d \in DOMAIN @ \cup DOMAIN new |-> IF d \in DOMAIN @ THEN @[d] ELSE new[d]]]

WithRole(profile, d, driver, id, address) ==
    WithRoles(profile, [e \in {d} |-> Role(driver, id, address)])

(* The enabled devices of a driver on the port. *)
OnPort(profile, drivers, port) ==
    {d \in Enabled(profile) :
        profile.roles[d].driver \in drivers /\ GetConnection(profile, d).port = port}

(* Refused if the ID is in use, or one of the rivals is. *)
WithOwnConnection(profile, d, driver, base, target, rivals) ==
    LET id == UniqueConnectionId(profile, base, target)
        wired == [profile EXCEPT !.connections = Append(@, Connection(id, target))]
    IN IF d \in Configured(profile) \/ rivals # {} THEN {}
       ELSE {WithRole(wired, d, driver, id, NoAddress)}

(* The connections on the port that an Alicat uses, as their places. *)
Buses(profile, port) ==
    {i \in DOMAIN profile.connections :
        /\ profile.connections[i].port = port
        /\ \E e \in Configured(profile) :
              /\ profile.roles[e].driver = "alicat"
              /\ profile.roles[e].connection = profile.connections[i].id}

(* The first bus found is shared; two enabled devices on it may not share an address. *)
WithNewAlicat(profile, d, port, address) ==
    LET buses == Buses(profile, port)
        bus == CHOOSE i \in buses : \A j \in buses : i <= j
        id == IF buses = {} THEN UniqueConnectionId(profile, "alicat_bus", port)
                            ELSE profile.connections[bus].id
        wired == IF buses = {}
                 THEN [profile EXCEPT !.connections = Append(@, Connection(id, port))]
                 ELSE profile
        taken == \E e \in Enabled(profile) : /\ profile.roles[e].driver = "alicat"
                                             /\ profile.roles[e].connection = id
                                             /\ profile.roles[e].address = address
    IN IF d \in Configured(profile) \/ taken THEN {}
       ELSE {WithRole(wired, d, "alicat", id, address)}

WithNewSupply(profile, d, host) ==
    WithOwnConnection(profile, d, Supply, "keithley_2260b_ethernet", host,
                      OnPort(profile, {Supply}, host))

WithNewGuardian(profile, d, port) ==
    WithOwnConnection(profile, d, "ohaus_guardian_5000", "guardian_serial", port,
                      OnPort(profile, {"ohaus_guardian_5000"}, port))

WithNewTemperatureProbe(profile, d, port) ==
    WithOwnConnection(profile, d, "tasi_ta612c", "thermocouple_serial", port,
                      OnPort(profile, {"tasi_ta612c"}, port))

(* The only one that minds other drivers on its port. *)
WithNewEzoHum(profile, d, port) ==
    WithOwnConnection(profile, d, "atlas_ezo_hum", "ezo_hum_serial", port,
                      {e \in Enabled(profile) : GetConnection(profile, e).port = port})

WithNewPump(profile, d, port) ==
    WithOwnConnection(profile, d, "kamoer_m1_stp", "pump_serial", port,
                      OnPort(profile, {"kamoer_m1_stp"}, port))

(* The controller answered on the port and listed its sensors, of which some are
   chosen.  One that is configured keeps its connection, and so has to be on it. *)
WithBoard(profile, port, chosen) ==
    LET known == Controller \in Configured(profile)
        refused == known /\ \/ profile.roles[Controller].driver # "esp32_json"
                            \/ GetConnection(profile, Controller).port # port
        id == IF known THEN profile.roles[Controller].connection
                       ELSE UniqueConnectionId(profile, "serial", Controller)
        wired == IF known THEN profile
                 ELSE WithRole([profile EXCEPT !.connections = Append(@, Connection(id, port))],
                               Controller, "esp32_json", id, NoAddress)
        added == chosen \ Configured(profile)
        sensors == [s \in added |-> Role(SensorDriver[s], id, NoAddress)]
    IN IF refused \/ (known /\ added = {}) THEN {}
       ELSE {WithRoles(wired, sensors)}

-----------------------------------------------------------------------------
(* The configuration of one device, as its driver takes it. *)

Fits(profile, d) == GetConnection(profile, d).fit = "fit" /\ profile.roles[d].fit

AlicatConfiguration(profile, d) ==
    /\ Fits(profile, d)
    /\ \A e \in Enabled(profile) \ {d} :
          ~ /\ profile.roles[e].driver = "alicat"
            /\ profile.roles[e].connection = profile.roles[d].connection
            /\ profile.roles[e].address = profile.roles[d].address

SupplyConfiguration(profile, d) == Fits(profile, d)

(* It owns its serial connection. *)
ProbeConfiguration(profile, d) ==
    /\ Fits(profile, d)
    /\ \A e \in Enabled(profile) \ {d} :
          profile.roles[e].connection # profile.roles[d].connection

PumpConfiguration(profile, d) == Fits(profile, d)

GuardianConfiguration(profile, d) == Fits(profile, d)

HumidityConfiguration(profile, d) == Fits(profile, d)

(* Its settings are not looked at. *)
DhtConfiguration(profile, d) == GetConnection(profile, d).fit = "fit"

Accepts(profile, d) ==
    CASE profile.roles[d].driver = "alicat" -> AlicatConfiguration(profile, d)
      [] profile.roles[d].driver = Supply -> SupplyConfiguration(profile, d)
      [] profile.roles[d].driver = "tasi_ta612c" -> ProbeConfiguration(profile, d)
      [] profile.roles[d].driver = "kamoer_m1_stp" -> PumpConfiguration(profile, d)
      [] profile.roles[d].driver = "ohaus_guardian_5000" -> GuardianConfiguration(profile, d)
      [] profile.roles[d].driver = "atlas_ezo_hum" -> HumidityConfiguration(profile, d)
      [] profile.roles[d].driver = "esp32_dht11" -> DhtConfiguration(profile, d)
      [] OTHER -> Fits(profile, d)

(* A session can be built from the profile. *)
Buildable(profile) == \A d \in Enabled(profile) : Accepts(profile, d)

-----------------------------------------------------------------------------
(* Device Setup changes and removes devices. *)

(* What the edit dialog lets an operator enter for a device. *)
Edits(profile, d) ==
    LET role == profile.roles[d]
        isSupply == role.driver = Supply
        isEsp32 == role.driver \in {"esp32_json", "esp32_dht11", "lumel_re72"}
    IN [enabled : BOOLEAN,
        address : IF role.driver = "alicat" THEN Addresses ELSE {NoAddress},
        fit : BOOLEAN,
        port : IF isSupply THEN Hosts ELSE Ports,
        line : {"fit", "unfit"} \cup IF isEsp32 THEN {"unnamed"} ELSE {}]

EditedRole(role, edit) ==
    [role EXCEPT !.enabled = edit.enabled, !.address = edit.address, !.fit = edit.fit]

EditedConnection(connection, edit) == [connection EXCEPT !.port = edit.port, !.fit = edit.line]

(* The connection's parameters change for everybody on it. *)
Edited(profile, d, edit) ==
    LET id == profile.roles[d].connection
    IN [profile EXCEPT
          !.roles[d] = EditedRole(@, edit),
          !.connections = [i \in DOMAIN @ |-> IF @[i].id = id THEN EditedConnection(@[i], edit)
                                                             ELSE @[i]]]

AsIfEnabled(profile, d) == [profile EXCEPT !.roles[d].enabled = TRUE]

(* Mutation: the configuration of an Alicat is saved as it was entered. *)
ValidatesMostDrivers(profile, d) ==
    profile.roles[d].driver \in Validated \ {"alicat"} => Accepts(AsIfEnabled(profile, d), d)

(* Some drivers' configuration is not validated, and of an ESP32 device only port, baud
   rate and timeout. *)
Validates(profile, d) ==
    LET driver == profile.roles[d].driver
    IN /\ driver \in Validated => Accepts(AsIfEnabled(profile, d), d)
       /\ driver \in {"esp32_json", "esp32_dht11"} => GetConnection(profile, d).fit # "unfit"

(* The connection goes with the last device on it. *)
Without(profile, d) ==
    LET connections == profile.connections
        remaining == Configured(profile) \ {d}
        id == profile.roles[d].connection
        place == CHOOSE i \in DOMAIN connections : connections[i].id = id
    IN [profile EXCEPT
          !.roles = [e \in remaining |-> profile.roles[e]],
          !.connections =
              IF \E e \in remaining : profile.roles[e].connection = id THEN connections
              ELSE SubSeq(connections, 1, place - 1)
                      \o SubSeq(connections, place + 1, Len(connections))]

Reworded(profile) == [profile EXCEPT !.details = 1 - @]

=============================================================================
