SPECIFICATION Spec
CONSTANTS
    owner = owner
    User = {owner}
    Owner = owner
    Guild = guild
    wellness = wellness
    Plugin = {wellness}
    NoPlugin = none
    block = block
    create = create
    ask = ask
    button = button
    form = form
    Builtin = {block}
    Slash = {create}
    Autocomplete = {ask}
    Component = {button}
    Modal = {form}
    PluginOf <- MCPluginOf
    Root = {"block", "remind"}
    RootOf <- MCRootOf
    Bypass = {"block"}
    Override <- MCOverride
    SlashCooldown = 2
    ComponentCooldown = 1
    ModalCooldown = 0
    MaxClock = 2
INVARIANTS
    Resolved
PROPERTIES
    CooldownHolds
    RunsOnlyAllowed
