\* The two routes that read wg-client get_all_config_list.
SPECIFICATION Spec
CONSTANTS
    Codes <- MCCodes
    NonNumber = NonNumber
    Secret = Secret
    Redacted = Redacted
    Tasks = {t1}
    RoutesCalled = {"wireguard_client_list", "wireguard_client_configs"}
    Worlds <- FourWorlds
    OddResponses <- MCOddResponses
    MaxLogins = 2
    MaxChanges = 1
INVARIANT
    FlattensTheSameList
